---- MODULE Spec2Model ----
(***************************************************************************)
(* A model of the drum-score capture backend: the in-memory job store,     *)
(* the single-worker executor that runs _run_job, the request handlers of  *)
(* app/main.py, and the frame extractor's hardware-acceleration fallback.  *)
(*                                                                         *)
(* Units: progress is kept in hundredths (0.2 is 20); roi coordinates are  *)
(* kept in half pixels (33 is 16.5 px) so that Python's round() - ties to  *)
(* even - is modelled by what it does.                                     *)
(***************************************************************************)
EXTENDS Integers, Sequences, FiniteSets, TLC

(* ------------------------------ bounds -------------------------------- *)

\* number of POST /jobs requests that are accepted
MaxJobs == 2
\* number of state-changing review_export / crop_capture calls served
MaxCalls == 1
\* pixel size of the images the pipeline writes
FrameW == 40
FrameH == 36

(* -------------------------- program constants ------------------------- *)

\* a pool of two worker threads
max_workers_two == 1 + 1

\* ThreadPoolExecutor(max_workers=1)
max_workers == 1
\* crop_capture: min_size
min_size == 16

JobIds == 1..MaxJobs
Workers == 1..max_workers

None == <<>>
Some(v) == <<v>>

QUEUED == "queued"
RUNNING == "running"
DONE == "done"
ERROR == "error"

(* ----------------------------- file system ---------------------------- *)

\* A path is <<k, name>>: name below the artifact directory of job k;
\* k = 0 is a place outside the jobs root.
FrameFile == "frames/frame_000001.png"
AudioFile == "audio/htdemucs/drums.wav"
RectFile == "rectified/sheet_00000.png"
StitchFile == "stitched/page_0000.png"
UpFile == "upscaled/upscaled_00000.png"
PageFile == "export/images/page_0001.png"
PdfFile == "export/sheet_export.pdf"

Image(w, h) == <<w, h>>
Blob == <<0, 0>>

\* st_size of a file, as _path_size_bytes reads it
FileSize(content) == content[1] * content[2] + 1

\* Path.suffix.lower()
Suffix(name) ==
    CASE name \in {FrameFile, RectFile, StitchFile, UpFile, PageFile,
                   "missing.png", "link.png", "outside.png"} -> ".png"
      [] name \in {"scan.JPG"} -> ".jpg"
      [] name = PdfFile -> ".pdf"
      [] name = AudioFile -> ".wav"
      [] OTHER -> ""

(* ------------------------------ job store ----------------------------- *)

\* Job(...) defaults
NewJob ==
    [status |-> QUEUED, progress |-> 0, current_step |-> "queued",
     message |-> "", result |-> <<>>, error_code |-> "None", log |-> <<>>]

Max2(a, b) == IF a >= b THEN a ELSE b
Min2(a, b) == IF a <= b THEN a ELSE b

\* job.progress = max(0.0, min(1.0, progress))
ClampProgress(p) == Max2(0, Min2(100, p))

\* JobStore.set_state: absent job is a no-op; every None argument keeps the field
SetState(st, j, status, progress, current_step, message, result, error_code) ==
    IF j \notin DOMAIN st THEN st
    ELSE [st EXCEPT ![j] =
            [status |-> status,
             progress |-> IF progress = None THEN @.progress
                          ELSE ClampProgress(progress[1]),
             current_step |-> IF current_step = None THEN @.current_step
                              ELSE current_step[1],
             message |-> IF message = None THEN @.message ELSE message[1],
             result |-> IF result = None THEN @.result ELSE result[1],
             error_code |-> IF error_code = None THEN @.error_code
                            ELSE error_code[1],
             log |-> @.log]]

\* JobStore.log
StoreLog(st, j, entry) ==
    IF j \notin DOMAIN st THEN st
    ELSE [st EXCEPT ![j].log = Append(@, entry)]

\* a dict update: keys of d2 replace those of d1
Update(d1, d2) ==
    [k \in (DOMAIN d1) \cup (DOMAIN d2) |->
        IF k \in DOMAIN d2 THEN d2[k] ELSE d1[k]]

VARIABLES
    store,          \* JobStore._jobs
    fs,             \* files under the jobs root (and outside it): path -> content
    dirs,           \* job ids whose artifact directory exists under the jobs root
    workq,          \* the executor's work queue
    pendingSubmit,  \* create_job calls between job_store.create and executor.submit
    submitOrder,    \* history: job ids in the order executor.submit saw them
    wpc, wjob, wresult, wexc,   \* per worker thread: position in _run_job and its locals
    last,           \* the last response of a request handler: <<handler, job id, code>>
    calls,          \* state-changing review/crop calls served so far
    req,            \* the capture-crop request being served, <<capture_path, roi>>,
                    \* where a specification records it
    \* one call of _extract_with_ffmpeg
    xpc,            \* its position: "idle", "clear", "run", "returned", "raised"
    xflags,         \* accel.ffmpeg_hwaccel_flags
    xidx,           \* the index in hwaccel_flag_sets of the current hw_flags
    xdir,           \* out_dir: frame number -> the attempt that wrote frame_<number>.png
    xerrors,        \* attempt_errors
    xmode,          \* runtime_info["ffmpeg_mode"]
    xret,           \* what the call returned or raised
    xtried,         \* history: the indexes of the flag sets ffmpeg was run with
    \* one call of clear_cache
    ccpc,           \* its position: "idle", "list", "remove"
    cclist,         \* the children of jobs_root still to visit
    ccreclaimed,    \* reclaimed_bytes
    cccleared,      \* cleared_paths
    ccskipped,      \* skipped_paths
    ccstart,        \* history: usage and entries of jobs_root when the call began
    \* one call of a function of the pipeline that keeps no state
    fpc,            \* its position: "idle", the function's name, "returned"
    arg,            \* its arguments and what it reads from its environment
    ret,            \* what it returned
    \* the runtime acceleration cache and the threads calling it
    accelCache,     \* _ACCELERATION_CACHE: None or Some(value)
    accelLogged,    \* _ACCELERATION_LOGGED
    accelLock,      \* _LOCK: the thread holding it, or 0
    tpc,            \* thread -> its position in get_runtime_acceleration
    targ,           \* thread -> the ffmpeg_bin and logger it passed
    taccel,         \* thread -> its local accel
    tcalls,         \* thread -> the calls it has made
    returned,       \* history: the values the calls returned
    detectRuns,     \* history: the runs of _detect_runtime_acceleration
    \* one Job object, the worker inside set_state and a reader of its fields
    sjob,           \* the Job's fields
    slock,          \* JobStore._lock: "free", "worker" or "reader"
    scalls,         \* the set_state calls the worker has still to make
    spos,           \* the worker inside set_state: 0 outside, k about to
                    \* assign field k, Len(SnapFields) + 1 about to leave
    rpc,            \* the reader: "idle", "get", "read", "done"
    rsnap,          \* the values to_public_dict has read so far
    rreads,         \* the snapshots the reader has taken
    whole           \* history: the Job's fields between set_state calls

extractVars == <<xpc, xflags, xidx, xdir, xerrors, xmode, xret, xtried>>
cacheVars == <<ccpc, cclist, ccreclaimed, cccleared, ccskipped, ccstart>>
callVars == <<fpc, arg, ret>>

\* the state of the components beside the job lifecycle
accelVars == <<accelCache, accelLogged, accelLock, tpc, targ, taccel, tcalls,
               returned, detectRuns>>
snapVars == <<sjob, slock, scalls, spos, rpc, rsnap, rreads, whole>>
sideVars == <<callVars, accelVars, snapVars>>

vars == <<store, fs, dirs, workq, pendingSubmit, submitOrder, wpc, wjob, wresult, wexc,
          last, calls, req, extractVars, cacheVars, sideVars>>

handlerVars == <<last, calls, req, extractVars, cacheVars, sideVars>>
workerVars == <<wpc, wjob, wresult, wexc>>

(* ------------------------------- _run_job ----------------------------- *)

\* StageProgress with the audio boundary reported below the extract boundary
StageProgressAudioLow(stage) ==
    CASE stage = "init" -> 1
      [] stage = "extract" -> 20
      [] stage = "audio_start" -> 3
      [] stage = "audio" -> 38
      [] stage = "detect" -> 45
      [] stage = "rectify" -> 68
      [] stage = "stitch" -> 82
      [] stage = "upscale" -> 92
      [] stage = "export" -> 100
      [] stage = "failed" -> 100

\* progress passed to set_state at each stage boundary of _run_job
StageProgress(stage) ==
    CASE stage = "init" -> 1
      [] stage = "extract" -> 20
      [] stage = "audio_start" -> 30
      [] stage = "audio" -> 38
      [] stage = "detect" -> 45
      [] stage = "rectify" -> 68
      [] stage = "stitch" -> 82
      [] stage = "upscale" -> 92
      [] stage = "export" -> 100
      [] stage = "failed" -> 100

\* current_step passed to set_state at each stage boundary
StageStep(stage) ==
    CASE stage = "init" -> "initializing"
      [] stage = "extract" -> "detecting"
      [] stage = "audio_start" -> "separating_audio"
      [] stage = "audio" -> "rectifying"
      [] stage = "detect" -> "rectifying"
      [] stage = "rectify" -> "stitching"
      [] stage = "stitch" -> "upscaling"
      [] stage = "upscale" -> "exporting"
      [] stage = "export" -> "done"
      [] stage = "failed" -> "failed"

\* the position that follows a stage that returned
NextPc(stage) ==
    CASE stage = "extract" -> "audio_gate"
      [] stage = "audio" -> "detect"
      [] stage = "detect" -> "rectify"
      [] stage = "rectify" -> "stitch"
      [] stage = "stitch" -> "upscale"
      [] stage = "upscale" -> "export"
      [] stage = "export" -> "finish"

JobPath(j, name) == <<j, name>>

WriteFiles(f, j, names, content) ==
    [p \in (DOMAIN f) \cup {JobPath(j, n) : n \in names} |->
        IF p[1] = j /\ p[2] \in names THEN content ELSE f[p]]

\* a work queue served newest first
NextWorkIndexLifo(q) == Len(q)

\* the executor hands the oldest queued work item to an idle worker
NextWorkIndex(q) == 1

RemoveAt(q, i) == [k \in 1..(Len(q) - 1) |-> IF k < i THEN q[k] ELSE q[k + 1]]

\* _run_job returns: its locals are gone and the worker thread is free
Return(w) ==
    /\ wpc' = [wpc EXCEPT ![w] = "idle"]
    /\ wjob' = [wjob EXCEPT ![w] = 0]
    /\ wresult' = [wresult EXCEPT ![w] = <<>>]
    /\ wexc' = [wexc EXCEPT ![w] = ""]

\* _run_job entry: job_store.get, the local result dict, log "job started"
RunJobStart(w) ==
    /\ wpc[w] = "idle"
    /\ workq # <<>>
    /\ LET i == NextWorkIndex(workq)
           j == workq[i]
       IN /\ workq' = RemoveAt(workq, i)
          /\ IF j \notin DOMAIN store
             THEN UNCHANGED <<store, workerVars>>
             ELSE /\ store' = StoreLog(store, j, <<"job started", "">>)
                  /\ wpc' = [wpc EXCEPT ![w] = "init"]
                  /\ wjob' = [wjob EXCEPT ![w] = j]
                  /\ wresult' = [wresult EXCEPT ![w] = [k \in {"output_dir"} |-> "v"]]
                  /\ wexc' = [wexc EXCEPT ![w] = ""]
    /\ UNCHANGED <<fs, dirs, pendingSubmit, submitOrder, handlerVars>>

\* set_state(RUNNING, 0.01, "initializing", ...)
RunJobInit(w) ==
    /\ wpc[w] = "init"
    /\ store' = SetState(store, wjob[w], RUNNING, Some(StageProgress("init")),
                         Some(StageStep("init")), Some("initializing pipeline"),
                         None, None)
    /\ wpc' = [wpc EXCEPT ![w] = "extract"]
    /\ UNCHANGED <<fs, dirs, workq, pendingSubmit, submitOrder, wjob, wresult, wexc,
                   handlerVars>>

\* a stage returned: its files are on disk, its keys are in the local result,
\* its logger lines are in the log, and set_state reports the boundary
StageReturns(w, stage, names, content, keys, message) ==
    /\ fs' = WriteFiles(fs, wjob[w], names, content)
    /\ wresult' = [wresult EXCEPT ![w] = Update(@, keys)]
    /\ store' = SetState(StoreLog(store, wjob[w], <<"stage", stage>>),
                         wjob[w], RUNNING, Some(StageProgress(stage)),
                         Some(StageStep(stage)), Some(message), None, None)
    /\ wpc' = [wpc EXCEPT ![w] = NextPc(stage)]
    /\ UNCHANGED <<dirs, workq, pendingSubmit, submitOrder, wjob, wexc, handlerVars>>

\* a stage raised and nothing catches it: _run_job ends where it stands
StageRaisesUncaught(w, stage) ==
    /\ wpc[w] = stage
    /\ wpc' = [wpc EXCEPT ![w] = "idle"]
    /\ wjob' = [wjob EXCEPT ![w] = 0]
    /\ wresult' = [wresult EXCEPT ![w] = <<>>]
    /\ UNCHANGED <<store, fs, dirs, workq, pendingSubmit, submitOrder, wexc,
                   handlerVars>>

\* a stage raised: control moves to the except clause with the exception
StageRaises(w, stage) ==
    /\ wpc[w] = stage
    /\ wpc' = [wpc EXCEPT ![w] = "fail_log"]
    /\ wexc' = [wexc EXCEPT ![w] = stage]
    /\ UNCHANGED <<store, fs, dirs, workq, pendingSubmit, submitOrder, wjob, wresult,
                   handlerVars>>

\* extract_frames, result["extracted_frames"], result["runtime"], the source
\* resolution (read back from the first extracted frame), set_state(0.2)
RunExtract(w) ==
    /\ wpc[w] = "extract"
    /\ StageReturns(w, "extract", {FrameFile}, Image(FrameW, FrameH),
           [k \in {"extracted_frames", "runtime", "source_resolution"} |->
               IF k = "extracted_frames" THEN <<JobPath(wjob[w], FrameFile)>> ELSE "v"],
           "frame extraction completed")

\* if audio_opts.enable: set_state(0.3, "separating_audio")
RunAudioGate(w) ==
    /\ wpc[w] = "audio_gate"
    /\ \E audio_enable \in BOOLEAN :
          IF audio_enable
          THEN /\ store' = SetState(store, wjob[w], RUNNING,
                                    Some(StageProgress("audio_start")),
                                    Some(StageStep("audio_start")),
                                    Some("starting audio separation"), None, None)
               /\ wpc' = [wpc EXCEPT ![w] = "audio"]
          ELSE /\ store' = store
               /\ wpc' = [wpc EXCEPT ![w] = "detect"]
    /\ UNCHANGED <<fs, dirs, workq, pendingSubmit, submitOrder, wjob, wresult, wexc,
                   handlerVars>>

AudioKeys == {"audio_stem", "audio_stems", "audio_engine", "audio_model", "audio_device"}

\* separate_audio_stem, result.update(audio_result), set_state(0.38)
RunAudio(w) ==
    /\ wpc[w] = "audio"
    /\ StageReturns(w, "audio", {AudioFile}, Blob, [k \in AudioKeys |-> "v"],
                    "audio separation completed")

\* detect_sheet_regions, result["detections"], set_state(0.45)
RunDetect(w) ==
    /\ wpc[w] = "detect"
    /\ StageReturns(w, "detect", {}, Blob, [k \in {"detections"} |-> "v"],
                    "sheet detection completed")

\* rectify_frames, result["rectified_frames"], set_state(0.68)
RunRectify(w) ==
    /\ wpc[w] = "rectify"
    /\ StageReturns(w, "rectify", {RectFile}, Image(FrameW, FrameH),
                    [k \in {"rectified_frames"} |-> <<JobPath(wjob[w], RectFile)>>],
                    "rectification completed")

\* stitch_pages, result["stitched_frames"], set_state(0.82)
RunStitch(w) ==
    /\ wpc[w] = "stitch"
    /\ StageReturns(w, "stitch", {StitchFile}, Image(FrameW, FrameH),
                    [k \in {"stitched_frames"} |-> <<JobPath(wjob[w], StitchFile)>>],
                    "stitching completed")

\* upscale_frames with the default options (upscale.enable = False passes the
\* stitched pages through), result["upscaled_frames"], result["review_candidates"],
\* set_state(0.92)
RunUpscale(w) ==
    /\ wpc[w] = "upscale"
    /\ StageReturns(w, "upscale", {}, Blob,
           [k \in {"upscaled_frames", "review_candidates"} |->
               IF k = "upscaled_frames" THEN <<>> ELSE <<JobPath(wjob[w], StitchFile)>>],
           "upscaling skipped")

\* the keys export_frames' output puts into a result
ExportKeys(j) ==
    [k \in {"images", "pdf", "raw_frames", "output_dir"} |->
        CASE k = "images" -> <<JobPath(j, PageFile)>>
          [] k = "pdf" -> <<JobPath(j, PdfFile)>>
          [] k = "raw_frames" -> <<>>
          [] k = "output_dir" -> "v"]

\* the result the worker stores when the job is done
DoneResult(result) == result

\* export_frames, the export keys, set_state(DONE, 1.0, result=result)
RunExport(w) ==
    /\ wpc[w] = "export"
    /\ LET j == wjob[w]
           result == Update(wresult[w], ExportKeys(j))
       IN /\ fs' = WriteFiles(WriteFiles(fs, j, {PageFile}, Image(FrameW, FrameH)),
                              j, {PdfFile}, Blob)
          /\ wresult' = [wresult EXCEPT ![w] = result]
          /\ store' = SetState(StoreLog(store, j, <<"stage", "export">>), j, DONE,
                               Some(StageProgress("export")), Some(StageStep("export")),
                               Some("export finished"), Some(DoneResult(result)), None)
    /\ wpc' = [wpc EXCEPT ![w] = NextPc("export")]
    /\ UNCHANGED <<dirs, workq, pendingSubmit, submitOrder, wjob, wexc, handlerVars>>

\* job_store.log(job_id, "job finished"); the worker thread is free again
RunJobFinish(w) ==
    /\ wpc[w] = "finish"
    /\ store' = StoreLog(store, wjob[w], <<"job finished", "">>)
    /\ Return(w)
    /\ UNCHANGED <<fs, dirs, workq, pendingSubmit, submitOrder, handlerVars>>

RaisingStages == {"extract", "audio", "detect", "rectify", "stitch", "upscale", "export"}

\* any stage call may raise
RunStageRaises(w) ==
    \E stage \in RaisingStages : StageRaises(w, stage)

\* except Exception as exc: job_store.log(job_id, f"job failed: {exc}")
RunJobFailLog(w) ==
    /\ wpc[w] = "fail_log"
    /\ store' = StoreLog(store, wjob[w], <<"job failed", wexc[w]>>)
    /\ wpc' = [wpc EXCEPT ![w] = "fail_state"]
    /\ UNCHANGED <<fs, dirs, workq, pendingSubmit, submitOrder, wjob, wresult, wexc,
                   handlerVars>>

\* an except clause that stores an empty result
FailResultEmpty(result) == <<>>

\* the result argument of the except clause's set_state
FailResult(result) == result

\* the error_code argument of the except clause's set_state
FailErrorCode == "PIPELINE_ERROR"

\* set_state(ERROR, 1.0, "failed", f"job failed: {exc}", result=result, error_code=...)
RunJobFailState(w) ==
    /\ wpc[w] = "fail_state"
    /\ store' = SetState(store, wjob[w], ERROR, Some(StageProgress("failed")),
                         Some(StageStep("failed")), Some("job failed"),
                         Some(FailResult(wresult[w])), Some(FailErrorCode))
    /\ Return(w)
    /\ UNCHANGED <<fs, dirs, workq, pendingSubmit, submitOrder, handlerVars>>

WorkerStep(w) ==
    \/ RunJobStart(w)
    \/ RunJobInit(w)
    \/ RunExtract(w)
    \/ RunAudioGate(w)
    \/ RunAudio(w)
    \/ RunDetect(w)
    \/ RunRectify(w)
    \/ RunStitch(w)
    \/ RunUpscale(w)
    \/ RunExport(w)
    \/ RunJobFinish(w)
    \/ RunStageRaises(w)
    \/ RunJobFailLog(w)
    \/ RunJobFailState(w)

\* no frame extraction call is in progress
ExtractIdle ==
    /\ xpc = "idle"
    /\ xflags = <<>>
    /\ xidx = 0
    /\ xdir = <<>>
    /\ xerrors = <<>>
    /\ xmode = None
    /\ xret = <<>>
    /\ xtried = <<>>

\* no clear_cache call is in progress
CacheIdle ==
    /\ ccpc = "idle"
    /\ cclist = <<>>
    /\ ccreclaimed = 0
    /\ cccleared = 0
    /\ ccskipped = {}
    /\ ccstart = <<>>

\* no call of a stateless pipeline function is in progress
CallIdle ==
    /\ fpc = "idle"
    /\ arg = <<>>
    /\ ret = <<>>

MaxThreads == 2
MaxAccelCalls == 2

AccelThreads == 1..MaxThreads

\* the module has been imported and no thread has called it
AccelIdle ==
    /\ accelCache = None
    /\ accelLogged = FALSE
    /\ accelLock = 0
    /\ tpc = [t \in AccelThreads |-> "idle"]
    /\ targ = [t \in AccelThreads |-> <<>>]
    /\ taccel = [t \in AccelThreads |-> None]
    /\ tcalls = [t \in AccelThreads |-> 0]
    /\ returned = {}
    /\ detectRuns = 0

\* no Job object is being written or read
SnapIdle ==
    /\ sjob = <<>>
    /\ slock = "free"
    /\ scalls = <<>>
    /\ spos = 0
    /\ rpc = "idle"
    /\ rsnap = <<>>
    /\ rreads = 0
    /\ whole = {}

\* the components beside the job lifecycle are at rest
SideIdle == CallIdle /\ AccelIdle /\ SnapIdle

\* the server has started: no job, no request, an idle worker
JobsIdle ==
    /\ ExtractIdle
    /\ CacheIdle
    /\ store = <<>>
    /\ fs = [p \in {<<0, "outside.png">>} |-> Image(FrameW, FrameH)]
    /\ dirs = {}
    /\ workq = <<>>
    /\ pendingSubmit = {}
    /\ submitOrder = <<>>
    /\ wpc = [w \in Workers |-> "idle"]
    /\ wjob = [w \in Workers |-> 0]
    /\ wresult = [w \in Workers |-> <<>>]
    /\ wexc = [w \in Workers |-> ""]
    /\ last = <<"none", 0, 0>>
    /\ calls = 0
    /\ req = <<>>

Init == JobsIdle /\ SideIdle

(* --------------------------- request handlers ------------------------- *)

Respond(handler, job_id, code) == last' = <<handler, job_id, code>>

CreatedCount == Len(submitOrder) + Cardinality(pendingSubmit)

\* create_job with a payload its checks reject
CreateJobRejected ==
    /\ Respond("create_job", 0, 400)
    /\ UNCHANGED <<store, fs, dirs, workq, pendingSubmit, submitOrder, workerVars, calls, req,
                   extractVars, cacheVars, sideVars>>

\* create_job up to job_store.create: a fresh uuid, the artifact directory, the record
CreateJob ==
    /\ CreatedCount < MaxJobs
    /\ LET job_id == CreatedCount + 1
       IN /\ dirs' = dirs \cup {job_id}
          /\ store' = (job_id :> NewJob) @@ store
          /\ pendingSubmit' = pendingSubmit \cup {job_id}
    /\ UNCHANGED <<fs, workq, submitOrder, workerVars, handlerVars>>

\* create_job from executor.submit(_run_job, job_id, payload) to its response
SubmitJob ==
    \E job_id \in pendingSubmit :
        /\ workq' = Append(workq, job_id)
        /\ submitOrder' = Append(submitOrder, job_id)
        /\ pendingSubmit' = pendingSubmit \ {job_id}
        /\ Respond("create_job", job_id, 200)
        /\ UNCHANGED <<store, fs, dirs, workerVars, calls, req,
                   extractVars, cacheVars, sideVars>>

\* get_job
GetJob(job_id) ==
    /\ Respond("get_job", job_id, IF job_id \in DOMAIN store THEN 200 ELSE 404)
    /\ UNCHANGED <<store, fs, dirs, workq, pendingSubmit, submitOrder, workerVars, calls, req,
                   extractVars, cacheVars, sideVars>>

\* Path.resolve(): "link.png" in a job directory is a symbolic link to a file
\* outside the jobs root; "alias.png" is a second name of the rectified sheet
Resolve(p) ==
    CASE p[2] = "link.png" -> <<0, "outside.png">>
      [] p[2] = "alias.png" -> <<p[1], RectFile>>
      [] OTHER -> p

\* resolved.relative_to(artifact_root) succeeds
InsideArtifactRoot(job_id, resolved) == resolved[1] = job_id

ImageSuffixes == {".png", ".jpg", ".jpeg"}

\* _resolve_capture_path_for_job: the 400 it raises, or "" when it returns
CaptureError(f, job_id, raw_path, must_exist) ==
    LET resolved == Resolve(raw_path)
    IN IF ~InsideArtifactRoot(job_id, resolved) THEN "outside"
       ELSE IF must_exist /\ resolved \notin DOMAIN f THEN "not found"
       ELSE IF Suffix(resolved[2]) \notin ImageSuffixes THEN "unsupported"
       ELSE ""

\* a guard that forgets the running jobs
BlockedStatusesQueuedOnly == {QUEUED}

\* the statuses for which review_export and crop_capture answer 409
BlockedStatuses == {QUEUED, RUNNING}

RECURSIVE DedupSeq(_)
\* the seen-set loop of review_export: first occurrences, in order
DedupSeq(s) ==
    IF s = <<>> THEN <<>>
    ELSE LET r == DedupSeq(SubSeq(s, 1, Len(s) - 1))
             x == s[Len(s)]
         IN IF \E i \in 1..Len(r) : r[i] = x THEN r ELSE Append(r, x)

ExportedNames == {PageFile, PdfFile}

\* _clear_export_workspace: the images, raw frames and pdf of the last export
ClearExportWorkspace(f, job_id) ==
    [p \in {q \in DOMAIN f : ~(q[1] = job_id /\ q[2] \in ExportedNames)} |-> f[p]]

\* the status review_export stores after a successful export
ReviewStatus(old) == DONE

\* review_export
ReviewExport(job_id, keep_raw) ==
    IF job_id \notin DOMAIN store
    THEN /\ Respond("review_export", job_id, 404)
         /\ UNCHANGED <<store, fs, dirs, workq, pendingSubmit, submitOrder,
                        workerVars, calls, req,
                   extractVars, cacheVars, sideVars>>
    ELSE IF store[job_id].status \in BlockedStatuses
    THEN /\ Respond("review_export", job_id, 409)
         /\ UNCHANGED <<store, fs, dirs, workq, pendingSubmit, submitOrder,
                        workerVars, calls, req,
                   extractVars, cacheVars, sideVars>>
    ELSE IF \/ keep_raw = <<>>
            \/ \E i \in 1..Len(keep_raw) :
                  CaptureError(fs, job_id, keep_raw[i], TRUE) # ""
    THEN /\ Respond("review_export", job_id, 400)
         /\ UNCHANGED <<store, fs, dirs, workq, pendingSubmit, submitOrder,
                        workerVars, calls, req,
                   extractVars, cacheVars, sideVars>>
    ELSE LET job == store[job_id]
             resolved_paths == DedupSeq([i \in 1..Len(keep_raw) |-> Resolve(keep_raw[i])])
             cleared == ClearExportWorkspace(fs, job_id)
             IsReadable(p) == p \in DOMAIN cleared
             source_images == SelectSeq(resolved_paths, IsReadable)
         IN IF source_images = <<>>
            THEN \* export_frames raises "no pages available for export"
                 /\ fs' = cleared
                 /\ Respond("review_export", job_id, 500)
                 /\ UNCHANGED <<store, dirs, workq, pendingSubmit, submitOrder,
                                workerVars, calls, req,
                   extractVars, cacheVars, sideVars>>
            ELSE /\ calls < MaxCalls
                 /\ calls' = calls + 1
                 /\ fs' = WriteFiles(WriteFiles(cleared, job_id, {PageFile},
                                                cleared[source_images[1]]),
                                     job_id, {PdfFile}, Blob)
                 /\ LET result ==
                          Update(Update(job.result, ExportKeys(job_id)),
                                 [k \in {"review_candidates", "review_export"} |->
                                     IF k = "review_candidates"
                                     THEN resolved_paths ELSE "v"])
                    IN store' = SetState(StoreLog(store, job_id, <<"stage", "export">>),
                                         job_id, ReviewStatus(job.status), Some(100),
                                         Some("done"), Some("review export finished"),
                                         Some(result), None)
                 /\ Respond("review_export", job_id, 200)
                 /\ UNCHANGED <<dirs, workq, pendingSubmit, submitOrder, workerVars, req,
                   extractVars, cacheVars, sideVars>>

\* the roi in half pixels: a point is <<x, y>>; NaN stands for float("nan")
NaN == 1000001

\* not (x == x)
IsNaN(c) == c = NaN

\* cv2.imread(...) is not None: the file holds an image
Readable(content) == content # Blob

\* max(0.0, min(float(w), x))
ClipCoord(c, w) == Max2(0, Min2(2 * w, c))

\* int(round(v)) of a value given in half pixels: Python rounds ties to even
PyRound(c) ==
    IF c % 2 = 0 THEN c \div 2
    ELSE LET k == (c - 1) \div 2 IN IF k % 2 = 0 THEN k ELSE k + 1

MinOf(S) == CHOOSE m \in S : \A x \in S : m <= x
MaxOf(S) == CHOOSE m \in S : \A x \in S : m >= x

\* x1, y1, x2, y2 of crop_capture for an image of w x h pixels
CropBox(roi, w, h) ==
    LET xs == {ClipCoord(roi[i][1], w) : i \in 1..Len(roi)}
        ys == {ClipCoord(roi[i][2], h) : i \in 1..Len(roi)}
    IN [x1 |-> PyRound(MinOf(xs)), y1 |-> PyRound(MinOf(ys)),
        x2 |-> PyRound(MaxOf(xs)), y2 |-> PyRound(MaxOf(ys))]

\* a size check that forgets the height
TooSmallWidthOnly(box) == box.x2 - box.x1 < min_size

\* x2 - x1 < min_size or y2 - y1 < min_size
TooSmall(box) == box.x2 - box.x1 < min_size \/ box.y2 - box.y1 < min_size

\* the list rewrite of crop_capture: entries that resolve to the capture
RewriteEntries(job_id, entries, capture_path) ==
    [i \in 1..Len(entries) |->
        IF /\ CaptureError(fs, job_id, entries[i], FALSE) = ""
           /\ Resolve(entries[i]) = capture_path
        THEN capture_path ELSE entries[i]]

CropResult(job_id, result, capture_path) ==
    [k \in DOMAIN result |->
        IF k \in {"review_candidates", "upscaled_frames"}
        THEN RewriteEntries(job_id, result[k], capture_path)
        ELSE result[k]]

\* crop_capture
CropCapture(job_id, raw_path, roi) ==
    IF job_id \notin DOMAIN store
    THEN /\ Respond("crop_capture", job_id, 404)
         /\ UNCHANGED <<store, fs, dirs, workq, pendingSubmit, submitOrder,
                        workerVars, calls,
                        extractVars, cacheVars, sideVars>>
    ELSE IF store[job_id].status \in BlockedStatuses
    THEN /\ Respond("crop_capture", job_id, 409)
         /\ UNCHANGED <<store, fs, dirs, workq, pendingSubmit, submitOrder,
                        workerVars, calls,
                        extractVars, cacheVars, sideVars>>
    ELSE IF \/ CaptureError(fs, job_id, raw_path, TRUE) # ""
            \/ Len(roi) # 4
            \/ \E i \in 1..Len(roi) : Len(roi[i]) # 2
            \/ \E i \in 1..Len(roi) : IsNaN(roi[i][1]) \/ IsNaN(roi[i][2])
            \/ ~Readable(fs[Resolve(raw_path)])
    THEN /\ Respond("crop_capture", job_id, 400)
         /\ UNCHANGED <<store, fs, dirs, workq, pendingSubmit, submitOrder,
                        workerVars, calls,
                        extractVars, cacheVars, sideVars>>
    ELSE LET job == store[job_id]
             capture_path == Resolve(raw_path)
             image == fs[capture_path]
             box == CropBox(roi, image[1], image[2])
         IN IF TooSmall(box)
            THEN /\ Respond("crop_capture", job_id, 400)
                 /\ UNCHANGED <<store, fs, dirs, workq, pendingSubmit, submitOrder,
                                workerVars, calls,
                        extractVars, cacheVars, sideVars>>
            ELSE \/ \* cv2.imwrite returns False
                    /\ Respond("crop_capture", job_id, 500)
                    /\ UNCHANGED <<store, fs, dirs, workq, pendingSubmit, submitOrder,
                                   workerVars, calls, extractVars, cacheVars, sideVars>>
                 \/ \* the crop is written over the capture
                    /\ calls < MaxCalls
                    /\ calls' = calls + 1
                    /\ fs' = [fs EXCEPT ![capture_path] =
                                 Image(box.x2 - box.x1, box.y2 - box.y1)]
                    /\ store' = StoreLog(
                           SetState(store, job_id, job.status, Some(job.progress),
                                    Some(job.current_step), Some("capture crop saved"),
                                    Some(CropResult(job_id, job.result, capture_path)),
                                    None),
                           job_id, <<"capture crop saved", capture_path[2]>>)
                    /\ Respond("crop_capture", job_id, 200)
                    /\ UNCHANGED <<dirs, workq, pendingSubmit, submitOrder, workerVars,
                                   extractVars, cacheVars, sideVars>>

Rect(x1, y1, x2, y2) == <<<<x1, y1>>, <<x2, y1>>, <<x2, y2>>, <<x1, y2>>>>

\* the requests the job-lifecycle specification sends
RequestJobIds == 0..MaxJobs

KeepChoices(j) == {<<>>, <<JobPath(j, RectFile)>>, <<JobPath(j, PageFile)>>}

CropPaths(j) == {JobPath(j, RectFile), <<0, "outside.png">>}

CropRois == {Rect(0, 0, 2 * FrameW, 2 * FrameH), Rect(4, 4, 20, 20)}

\* the handlers that can change a job, a file or the work queue
Handlers ==
    \/ CreateJob
    \/ SubmitJob
    \/ \E j \in RequestJobIds : \E keep \in KeepChoices(j) : ReviewExport(j, keep)
    \/ \E j \in RequestJobIds : \E p \in CropPaths(j) : \E roi \in CropRois :
          CropCapture(j, p, roi) /\ UNCHANGED req

\* the handlers that only answer
Readers ==
    \/ CreateJobRejected
    \/ \E j \in RequestJobIds : GetJob(j)

Next == Handlers \/ Readers \/ \E w \in Workers : WorkerStep(w)

LiveNext == Handlers \/ \E w \in Workers : WorkerStep(w)

Spec == Init /\ [][Next]_vars

\* the worker thread runs whenever it has something to do, every stage call
\* returns or raises, and a create_job call that stored its job goes on to submit it
LiveSpec ==
    /\ Init
    /\ [][LiveNext]_vars
    /\ \A w \in Workers : WF_vars(WorkerStep(w))
    /\ WF_vars(SubmitJob)

(* ------------------------------- claims -------------------------------- *)

Terminal == {DONE, ERROR}

Present == DOMAIN store

StatusStep(old, new) ==
    \/ new = old
    \/ old = QUEUED /\ new = RUNNING
    \/ old = RUNNING /\ new \in Terminal

\* C1: every change of a job's status follows queued -> running -> done or
\* queued -> running -> error; a done or error job keeps its status for good,
\* whatever the worker and get, review_export and crop_capture do.
C1_StatusOnlyMovesForward ==
    [][\A j \in Present \cap DOMAIN store' :
          StatusStep(store[j].status, store'[j].status)]_vars

\* C2: the stored progress of every job is within [0, 1] (0..100 hundredths)
\* and no step of the worker or of a handler lowers it.
C2_ProgressMonotone ==
    [][\A j \in DOMAIN store' :
          /\ store'[j].progress >= 0
          /\ store'[j].progress <= 100
          /\ j \in Present => store'[j].progress >= store[j].progress]_vars

InLog(j, entry) == \E i \in 1..Len(store[j].log) : store[j].log[i] = entry

\* C2 witness: a job that went through audio separation, then failed, and was
\* given its final progress by the except clause
C2_Witness ==
    \E j \in Present :
        /\ store[j].status = ERROR
        /\ store[j].progress = 100
        /\ InLog(j, <<"stage", "audio">>)

RunningJobs == {j \in Present : store[j].status = RUNNING}

BusyWorkers == {w \in Workers : wpc[w] # "idle"}

\* C3: at most one job is running and at most one _run_job is in progress;
\* every other job that is not finished is queued.
C3_AtMostOneRunning ==
    /\ Cardinality(RunningJobs) <= 1
    /\ Cardinality(BusyWorkers) <= 1
    /\ \A j \in Present :
          store[j].status \notin Terminal /\ j \notin RunningJobs
              => store[j].status = QUEUED

\* C3 witness: one job runs while another, already submitted, waits
C3_Witness ==
    \E j, k \in Present :
        /\ store[j].status = RUNNING
        /\ store[k].status = QUEUED
        /\ \E i \in 1..Len(workq) : workq[i] = k

\* C4: of two submitted jobs, the one submitted later has not left queued
\* unless the one submitted earlier is done or error.
C4_SubmissionOrder ==
    \A a, b \in 1..Len(submitOrder) :
        (a < b /\ submitOrder[b] \in Present /\ submitOrder[a] \in Present
               /\ store[submitOrder[b]].status # QUEUED)
            => store[submitOrder[a]].status \in Terminal

\* C4 witness: the later job runs after the earlier one failed
C4_Witness ==
    /\ Len(submitOrder) >= 2
    /\ store[submitOrder[1]].status = ERROR
    /\ store[submitOrder[2]].status = RUNNING

\* the result keys _run_job writes once a stage has returned
KeysWrittenBy(stage) ==
    CASE stage = "extract" -> {"extracted_frames", "runtime"}
      [] stage = "audio" -> {"audio_stem", "audio_stems", "audio_engine",
                             "audio_model", "audio_device"}
      [] stage = "detect" -> {"detections"}
      [] stage = "rectify" -> {"rectified_frames"}
      [] stage = "stitch" -> {"stitched_frames"}
      [] stage = "upscale" -> {"upscaled_frames", "review_candidates"}
      [] OTHER -> {}

\* C5: when the except clause of _run_job finishes, the job is error with
\* error_code PIPELINE_ERROR, its log holds "job failed: <cause>", its result
\* holds output_dir and every key of the stages that returned, and the worker
\* is free again (the exception went no further).
C5_FailureIsRecorded ==
    [][\A w \in Workers :
          (wpc[w] = "fail_state" /\ wpc'[w] # "fail_state") =>
             LET j == wjob[w]
                 after == store'[j]
             IN /\ wpc'[w] = "idle"
                /\ after.status = "error"
                /\ after.error_code = "PIPELINE_ERROR"
                /\ \E i \in 1..Len(after.log) :
                      after.log[i] = <<"job failed", wexc[w]>>
                /\ "output_dir" \in DOMAIN after.result
                /\ \A i \in 1..Len(after.log) :
                      after.log[i][1] = "stage" =>
                          KeysWrittenBy(after.log[i][2]) \subseteq DOMAIN after.result]_vars

\* C5 witness: a job that failed in stitching, after rectification returned
C5_Witness ==
    \E j \in Present :
        /\ store[j].status = ERROR
        /\ store[j].error_code = "PIPELINE_ERROR"
        /\ InLog(j, <<"job failed", "stitch">>)
        /\ "rectified_frames" \in DOMAIN store[j].result

\* C6: every job create_job stored is eventually done or error.
C6_EveryJobFinishes ==
    \A j \in JobIds : (j \in Present) ~> (j \in Present /\ store[j].status \in Terminal)

\* C6 witness: the second job finished although the first one failed
C6_Witness ==
    /\ Len(submitOrder) >= 2
    /\ InLog(submitOrder[1], <<"job failed", "extract">>)
    /\ store[submitOrder[2]].status = DONE

\* a step of review_export or crop_capture: it answers, and touches neither the
\* worker nor the work queue
IsReviewOrCropStep ==
    /\ last'[1] \in {"review_export", "crop_capture"}
    /\ UNCHANGED <<workerVars, workq, pendingSubmit, submitOrder>>
    /\ (last' # last \/ store' # store \/ fs' # fs)

\* C8: review_export and crop_capture answer 409 for a queued or running job
\* and 404 for an unknown id, and in both cases leave every job record, every
\* file and every directory as they were.
C8_BlockedCallsChangeNothing ==
    [][IsReviewOrCropStep =>
          LET j == last'[2]
              code == last'[3]
          IN /\ j \notin Present => code = 404
             /\ (j \in Present /\ store[j].status \in {"queued", "running"})
                   => code = 409
             /\ code \in {404, 409} => UNCHANGED <<store, fs, dirs>>]_vars

\* C8 witness: review_export was refused while a job with captures on disk runs
C8_Witness ==
    \E j \in Present :
        /\ last = <<"review_export", j, 409>>
        /\ store[j].status = RUNNING
        /\ JobPath(j, RectFile) \in DOMAIN fs

(* ------------------- capture crop on a finished job ------------------- *)

\* the record of job 1 after _run_job ran every stage with the default options
FinishedJob ==
    [status |-> DONE, progress |-> StageProgress("export"),
     current_step |-> StageStep("export"), message |-> "export finished",
     result |->
        Update(Update([k \in {"extracted_frames", "runtime", "source_resolution",
                              "detections"} |->
                          IF k = "extracted_frames" THEN <<JobPath(1, FrameFile)>>
                          ELSE "v"],
                      [k \in {"rectified_frames", "stitched_frames", "upscaled_frames",
                              "review_candidates"} |->
                          CASE k = "rectified_frames" -> <<JobPath(1, RectFile)>>
                            [] k = "upscaled_frames" -> <<>>
                            [] OTHER -> <<JobPath(1, StitchFile)>>]),
               ExportKeys(1)),
     error_code |-> "None",
     log |-> <<<<"job started", "">>, <<"stage", "extract">>, <<"stage", "detect">>,
               <<"stage", "rectify">>, <<"stage", "stitch">>, <<"stage", "upscale">>,
               <<"stage", "export">>, <<"job finished", "">>>>]

\* the files that job left
FinishedFiles ==
    WriteFiles(WriteFiles([p \in {<<0, "outside.png">>} |-> Image(FrameW, FrameH)],
                          1, {FrameFile, RectFile, StitchFile, PageFile},
                          Image(FrameW, FrameH)),
               1, {PdfFile}, Blob)

CropInit ==
    /\ SideIdle
    /\ ExtractIdle
    /\ CacheIdle
    /\ store = (1 :> FinishedJob)
    /\ fs = FinishedFiles
    /\ dirs = {1}
    /\ workq = <<>>
    /\ pendingSubmit = {}
    /\ submitOrder = <<1>>
    /\ wpc = [w \in Workers |-> "idle"]
    /\ wjob = [w \in Workers |-> 0]
    /\ wresult = [w \in Workers |-> <<>>]
    /\ wexc = [w \in Workers |-> ""]
    /\ last = <<"create_job", 1, 200>>
    /\ calls = 0
    /\ req = <<>>

\* capture paths a client sends for job 1
CropRequestPaths ==
    {JobPath(1, RectFile), JobPath(1, StitchFile), JobPath(1, PdfFile),
     <<1, "alias.png">>, <<1, "link.png">>, <<1, "missing.png">>, <<0, "outside.png">>}

\* rois a client sends, in half pixels
CropRequestRois ==
    {Rect(0, 0, 2 * FrameW, 2 * FrameH),
     Rect(0, 0, 2 * min_size, 2 * min_size),
     Rect(0, 0, 2 * min_size - 2, 2 * min_size),
     Rect(0, 0, 2 * min_size, 2 * min_size - 2),
     Rect(1, 1, 2 * min_size - 1, 2 * min_size - 1),
     Rect(3, 3, 2 * min_size + 1, 2 * min_size + 1),
     Rect(1, 0, 2 * min_size + 1, 2 * min_size + 2),
     Rect(5, 2, 2 * min_size + 9, 2 * min_size + 6),
     Rect(-20, -20, 2 * min_size, 2 * min_size + 4),
     Rect(4, 4, 6 * FrameW, 6 * FrameH),
     Rect(2 * FrameW - 10, 0, 2 * FrameW + 40, 2 * FrameH),
     Rect(0, 0, NaN, 2 * FrameH),
     <<<<0, 0>>, <<2 * FrameW, 0>>, <<2 * FrameW, 2 * FrameH>>>>,
     <<<<0, 0>>, <<2 * FrameW, 0, 0>>, <<2 * FrameW, 2 * FrameH>>, <<0, 2 * FrameH>>>>}

\* crop_capture serving one recorded request for job 1
CropRequest ==
    \E p \in CropRequestPaths : \E roi \in CropRequestRois :
        /\ CropCapture(1, p, roi)
        /\ req' = <<p, roi>>

CropNext == CropRequest

CropSpec == CropInit /\ [][CropNext]_vars

(* ------------------------------ claim C9 ------------------------------ *)

\* a roi coordinate (half pixels) brought inside an image side of size pixels
ClipToImage(c, size) == IF c < 0 THEN 0 ELSE IF c > 2 * size THEN 2 * size ELSE c

\* the integer nearest to a value given in half pixels, ties going to the even one
NearestInt(c) ==
    CHOOSE n \in 0..(FrameW + FrameH + 2) :
        /\ 2 * n - c \in {-1, 0, 1}
        /\ (2 * n # c) => (n % 2 = 0)

ExactEdge(c) == c
RoundedEdge(c) == 2 * NearestInt(c)

\* width and height (half pixels) of the roi's bounding box inside the image
BoundingBox(roi, image, Edge(_)) ==
    LET xs == {Edge(ClipToImage(roi[i][1], image[1])) : i \in 1..Len(roi)}
        ys == {Edge(ClipToImage(roi[i][2], image[2])) : i \in 1..Len(roi)}
    IN <<MaxOf(xs) - MinOf(xs), MaxOf(ys) - MinOf(ys)>>

\* every roi point carries two numbers
RoiHasNumbers(roi) ==
    \A i \in 1..Len(roi) : Len(roi[i]) >= 2 /\ roi[i][1] # NaN /\ roi[i][2] # NaN

\* one crop_capture call on a finished job, the box edges taken through Edge
CropOutcome(Edge(_)) ==
    (last'[1] = "crop_capture" /\ req' # <<>>) =>
        LET j == last'[2]
            code == last'[3]
            roi == req'[2]
            target == Resolve(req'[1])
            pathOk == /\ target[1] = j
                      /\ Suffix(target[2]) \in {".png", ".jpg", ".jpeg"}
                      /\ target \in DOMAIN fs
                      /\ fs[target] # Blob
            box == BoundingBox(roi, fs[target], Edge)
            cond == /\ pathOk
                    /\ RoiHasNumbers(roi)
                    /\ box[1] >= 2 * 16
                    /\ box[2] >= 2 * 16
        IN /\ (code = 200 \/ fs' # fs) => cond
           /\ ~cond => /\ code = 400
                       /\ fs' = fs
                       /\ store'[j].result = store[j].result
                       /\ store'[j].log = store[j].log
           /\ code = 200 =>
                 /\ 2 * fs'[target][1] = box[1]
                 /\ 2 * fs'[target][2] = box[2]
                 /\ \A q \in DOMAIN fs : q # target => fs'[q] = fs[q]
                 /\ DOMAIN fs' = DOMAIN fs

\* C9 as stated: crop_capture overwrites the capture only if the resolved path
\* is inside the job's directory, is an existing image file, and the roi's
\* bounding box clipped to the image is at least 16 x 16; otherwise it answers
\* 400 and file, result and log stay; the new file has exactly the clipped
\* box's width and height
C9_CropNeedsClippedBox == [][CropOutcome(ExactEdge)]_vars

\* C9 amended: the same, for the clipped bounding box whose edges are rounded to
\* the nearest integer pixel (ties to the even one): that box is at least
\* 16 x 16, and the new file has exactly its width and height
C9_CropNeedsRoundedBox == [][CropOutcome(RoundedEdge)]_vars

\* a roi from 0.5 to 15.5 pixels, sent through a link to the rectified sheet, was
\* accepted and the sheet is now 16 x 16
C9_Witness ==
    /\ last = <<"crop_capture", 1, 200>>
    /\ req = <<<<1, "alias.png">>, Rect(1, 1, 2 * 16 - 1, 2 * 16 - 1)>>
    /\ fs[JobPath(1, RectFile)] = Image(16, 16)

(* ------------------------- _extract_with_ffmpeg ----------------------- *)

MaxFrames == 2

\* everything outside the extraction call
mainVars == <<store, fs, dirs, workq, pendingSubmit, submitOrder, workerVars,
              last, calls, req>>

\* _hwaccel_flags_for
HwaccelFlagsFor(name) ==
    IF name = "" THEN <<>>
    ELSE IF name = "cuda" THEN <<"-hwaccel", "cuda", "-hwaccel_output_format", "cuda">>
    ELSE <<"-hwaccel", name>>

\* lists _resolve_ffmpeg_hwaccel_flags can produce, and the empty list
FlagLists ==
    {<<>>,
     <<<<>>>>,
     <<HwaccelFlagsFor("cuda"), <<>>>>,
     <<HwaccelFlagsFor("videotoolbox"), HwaccelFlagsFor("cuda"), <<>>>>,
     <<HwaccelFlagsFor("cuda"), HwaccelFlagsFor("d3d11va"), HwaccelFlagsFor("dxva2"), <<>>>>}

\* accel.ffmpeg_hwaccel_flags or [[]]
HwaccelFlagSets(flags) == IF flags = <<>> THEN <<<<>>>> ELSE flags

\* _hwaccel_mode_name
HwaccelModeName(flags) ==
    IF flags = <<>> THEN "cpu"
    ELSE IF \E i \in 1..Len(flags) : flags[i] = "-hwaccel"
    THEN LET idx == MinOf({i \in 1..Len(flags) : flags[i] = "-hwaccel"})
         IN IF idx + 1 <= Len(flags) THEN flags[idx + 1] ELSE "gpu"
    ELSE "gpu"

\* result.stderr.strip() if result.stderr else "unknown ffmpeg error"
StderrText(stderr) ==
    IF stderr = "" THEN "unknown ffmpeg error"
    ELSE IF stderr = " " THEN "" ELSE stderr

RECURSIVE SortedSeq(_)
\* sorted(...) of a set of numbers
SortedSeq(S) ==
    IF S = {} THEN <<>> ELSE <<MinOf(S)>> \o SortedSeq(S \ {MinOf(S)})

\* attempt_errors[-3:]
LastThree(errors) ==
    SubSeq(errors, Max2(1, Len(errors) - 2), Len(errors))

\* " | ".join(attempt_errors[-3:]) if attempt_errors else "no ffmpeg attempts"
JoinedErrors(errors) ==
    IF errors = <<>> THEN <<<<"", "no ffmpeg attempts">>>> ELSE LastThree(errors)

\* _clear_extracted_frames: every frame file is unlinked, except those whose
\* unlink raises OSError, which stay
ExtractClear ==
    /\ xpc = "clear"
    /\ xidx <= Len(HwaccelFlagSets(xflags))
    /\ \E kept \in SUBSET (DOMAIN xdir) :
          xdir' = [i \in kept |-> xdir[i]]
    /\ xpc' = "run"
    /\ UNCHANGED <<xflags, xidx, xerrors, xmode, xret, xtried, mainVars, cacheVars, sideVars>>

\* one ffmpeg run with hw_flags: it writes frame_000001.png .. frame_<n>.png
\* over what is there and exits with returncode
ExtractRun ==
    /\ xpc = "run"
    /\ \E returncode \in {0, 1} : \E n \in 0..MaxFrames :
       \E stderr \in {"", " ", "decode error"} :
          LET hw_flags == HwaccelFlagSets(xflags)[xidx]
              mode == HwaccelModeName(hw_flags)
              written == [i \in (DOMAIN xdir) \cup (1..n) |->
                             IF i <= n THEN xidx ELSE xdir[i]]
              frames == SortedSeq(DOMAIN written)
          IN /\ xdir' = written
             /\ xtried' = Append(xtried, [set |-> xidx, returncode |-> returncode,
                                          produced |-> n])
             /\ IF returncode = 0 /\ frames # <<>>
                THEN /\ xmode' = Some(mode)
                     /\ xret' = <<"frames", frames>>
                     /\ xpc' = "returned"
                     /\ UNCHANGED <<xidx, xerrors>>
                ELSE /\ xerrors' = Append(xerrors, <<mode, StderrText(stderr)>>)
                     /\ xidx' = xidx + 1
                     /\ xpc' = "clear"
                     /\ UNCHANGED <<xmode, xret>>
    /\ UNCHANGED <<xflags, mainVars, cacheVars, sideVars>>

\* the loop is over: raise RuntimeError("ffmpeg failed after gpu/cpu fallback: ...")
ExtractRaise ==
    /\ xpc = "clear"
    /\ xidx > Len(HwaccelFlagSets(xflags))
    /\ xret' = <<"error", JoinedErrors(xerrors)>>
    /\ xpc' = "raised"
    /\ UNCHANGED <<xflags, xidx, xdir, xerrors, xmode, xtried, mainVars, cacheVars, sideVars>>

\* extract_frames has made the empty frames directory of a new job and calls
\* _extract_with_ffmpeg
ExtractInit ==
    /\ SideIdle
    /\ CacheIdle
    /\ store = (1 :> [NewJob EXCEPT !.status = RUNNING,
                                    !.progress = StageProgress("init"),
                                    !.current_step = StageStep("init"),
                                    !.message = "initializing pipeline",
                                    !.log = <<<<"job started", "">>>>])
    /\ fs = [p \in {<<0, "outside.png">>} |-> Image(FrameW, FrameH)]
    /\ dirs = {1}
    /\ workq = <<>>
    /\ pendingSubmit = {}
    /\ submitOrder = <<1>>
    /\ wpc = [w \in Workers |-> IF w = 1 THEN "extract" ELSE "idle"]
    /\ wjob = [w \in Workers |-> IF w = 1 THEN 1 ELSE 0]
    /\ wresult = [w \in Workers |->
                     IF w = 1 THEN [k \in {"output_dir"} |-> "v"] ELSE <<>>]
    /\ wexc = [w \in Workers |-> ""]
    /\ last = <<"create_job", 1, 200>>
    /\ calls = 0
    /\ req = <<>>
    /\ xflags \in FlagLists
    /\ xpc = "clear"
    /\ xidx = 1
    /\ xdir = <<>>
    /\ xerrors = <<>>
    /\ xmode = None
    /\ xret = <<>>
    /\ xtried = <<>>

ExtractNext == ExtractClear \/ ExtractRun \/ ExtractRaise

ExtractSpec == ExtractInit /\ [][ExtractNext]_vars

(* ------------------------------ claim C10 ----------------------------- *)

\* an ffmpeg run that exited 0 and produced at least one frame
AttemptSucceeded(a) == a.returncode = 0 /\ a.produced >= 1

\* C10: the flag sets are tried in list order; no frame file is in the output
\* directory when an attempt starts; the call returns at the first attempt that
\* exits 0 having produced a frame, with that attempt's mode as ffmpeg_mode and
\* only frames written by that attempt; when every flag set failed it raises an
\* error made of the last three attempt errors
C10_ExtractionCommitsFirstSuccess ==
    LET sets == HwaccelFlagSets(xflags)
        n == Len(xtried)
    IN /\ \A i \in 1..n : xtried[i].set = i
       /\ n <= Len(sets)
       /\ xpc = "run" => DOMAIN xdir = {}
       /\ \A i \in 1..(n - 1) : ~AttemptSucceeded(xtried[i])
       /\ xpc = "returned" =>
             /\ n >= 1
             /\ AttemptSucceeded(xtried[n])
             /\ xmode = Some(HwaccelModeName(sets[n]))
             /\ xret[2] # <<>>
             /\ \A k \in 1..Len(xret[2]) : xdir[xret[2][k]] = n
       /\ xpc = "raised" =>
             /\ n = Len(sets)
             /\ ~AttemptSucceeded(xtried[n])
             /\ Len(xerrors) = n
             /\ \A i \in 1..n : xerrors[i][1] = HwaccelModeName(sets[i])
             /\ xret[2] = [k \in 1..Min2(3, n) |-> xerrors[n - Min2(3, n) + k]]

(* ------------------------------ clear_cache --------------------------- *)

\* JobStore.active_job_ids: the ids of the jobs that are queued or running
active_job_ids(st) == {j \in DOMAIN st : st[j].status \in {QUEUED, RUNNING}}

\* JobStore.clear_all: every record is dropped
clear_all(st) == <<>>

\* if active_jobs: raise HTTPException(status_code=409, ...)
CacheBlocked(active_jobs) == active_jobs # {}

\* the files under one child of jobs_root
FilesUnder(f, child) == {p \in DOMAIN f : p[1] = child}

RECURSIVE SumSizes(_, _)
SumSizes(f, paths) ==
    IF paths = {} THEN 0
    ELSE LET p == CHOOSE q \in paths : TRUE
         IN FileSize(f[p]) + SumSizes(f, paths \ {p})

\* _path_size_bytes of a child of jobs_root (0 when it does not exist)
PathSizeBytes(f, child) == SumSizes(f, FilesUnder(f, child))

\* jobs_root.iterdir(): the job directories, made by create_job or by a stage
\* that writes into its workspace
Children(d, f) == d \cup {p[1] : p \in {q \in DOMAIN f : q[1] # 0}}

\* _cache_usage_summary: total bytes under jobs_root
CacheUsage(d, f) ==
    SumSizes(f, UNION {FilesUnder(f, child) : child \in Children(d, f)})

\* _remove_path: shutil.rmtree of a job directory
RemovePath(f, child) == [p \in (DOMAIN f) \ FilesUnder(f, child) |-> f[p]]

\* clear_cache up to the 409: job_store.active_job_ids() and the three counters
ClearCacheCheck ==
    /\ ccpc = "idle"
    /\ IF CacheBlocked(active_job_ids(store))
       THEN /\ Respond("clear_cache", 0, 409)
            /\ UNCHANGED <<calls, cacheVars>>
       ELSE /\ calls < MaxCalls
            /\ calls' = calls + 1
            /\ ccpc' = "list"
            /\ ccreclaimed' = 0
            /\ cccleared' = 0
            /\ ccskipped' = {}
            /\ ccstart' = [usage |-> CacheUsage(dirs, fs), entries |-> Children(dirs, fs)]
            /\ UNCHANGED <<cclist, last>>
    /\ UNCHANGED <<store, fs, dirs, workq, pendingSubmit, submitOrder, workerVars,
                   req, extractVars, sideVars>>

\* sorted(jobs_root.iterdir(), key=name): the listing the loop will walk
ClearCacheList ==
    /\ ccpc = "list"
    /\ cclist' = SortedSeq(Children(dirs, fs))
    /\ ccpc' = "remove"
    /\ UNCHANGED <<store, fs, dirs, workq, pendingSubmit, submitOrder, workerVars,
                   last, calls, req, extractVars, sideVars,
                   ccreclaimed, cccleared, ccskipped, ccstart>>

\* one turn of the loop: the child is measured, then removed; an OSError from
\* the removal leaves it in place and lists it as skipped
ClearCacheChild ==
    /\ ccpc = "remove"
    /\ cclist # <<>>
    /\ LET child == Head(cclist)
       IN /\ ccreclaimed' = ccreclaimed + PathSizeBytes(fs, child)
          /\ \/ /\ fs' = RemovePath(fs, child)
                /\ dirs' = dirs \ {child}
                /\ cccleared' = cccleared + 1
                /\ UNCHANGED ccskipped
             \/ /\ child \in Children(dirs, fs)
                /\ ccskipped' = ccskipped \cup {child}
                /\ UNCHANGED <<fs, dirs, cccleared>>
    /\ cclist' = Tail(cclist)
    /\ UNCHANGED <<store, workq, pendingSubmit, submitOrder, workerVars,
                   last, calls, req, extractVars, sideVars, ccpc, ccstart>>

\* job_store.clear_all() and the response
ClearCacheFinish ==
    /\ ccpc = "remove"
    /\ cclist = <<>>
    /\ store' = clear_all(store)
    /\ Respond("clear_cache", 0, 200)
    /\ ccpc' = "idle"
    /\ UNCHANGED <<fs, dirs, workq, pendingSubmit, submitOrder, workerVars,
                   calls, req, extractVars, sideVars,
                   cclist, ccreclaimed, cccleared, ccskipped, ccstart>>

ClearCache == ClearCacheCheck \/ ClearCacheList \/ ClearCacheChild \/ ClearCacheFinish

\* create_job and clear_cache requests served by the server's request threads
\* while the worker thread runs the jobs
CacheNext == CreateJob \/ SubmitJob \/ ClearCache \/ \E w \in Workers : WorkerStep(w)

CacheSpec == Init /\ [][CacheNext]_vars

(* ------------------------------ claim C7 ------------------------------ *)

\* a clear_cache response with this code is sent in this step
CacheResponds(code) == last' # last /\ last' = <<"clear_cache", 0, code>>

\* C7: a clear_cache call made while a job is queued or running answers 409
\* and removes no file and no job record; a call made while none is answers 200
\* with every top-level entry the artifact root had gone, every job record
\* dropped, and reclaimed bytes equal to the usage total just before the call
C7_ClearCacheContract ==
    [][/\ CacheResponds(409) =>
             /\ \E j \in DOMAIN store : store[j].status \in {"queued", "running"}
             /\ UNCHANGED <<store, fs, dirs>>
       /\ (ccpc = "idle" /\ ccpc' = "list") =>
             ~ \E j \in DOMAIN store : store[j].status \in {"queued", "running"}
       /\ CacheResponds(200) =>
             /\ Children(dirs', fs') \cap ccstart.entries = {}
             /\ DOMAIN store' = {}
             /\ ccreclaimed' = ccstart.usage]_vars

-----------------------------------------------------------------------------
\* Stateless functions of the pipeline: one call, its inputs drawn at the start.

\* everything of the job lifecycle, which a call of such a function leaves alone
jobVars == <<mainVars, extractVars, cacheVars>>

\* everything but the call itself
outsideCall == <<jobVars, accelVars, snapVars>>

\* everything but the acceleration cache and its callers
outsideAccel == <<jobVars, callVars, snapVars>>

\* everything but the Job object, its writer and its reader
outsideSnap == <<jobVars, callVars, accelVars>>

\* a call of `name` is about to run on one of `inputs`
CallInit(name, inputs) ==
    /\ JobsIdle
    /\ AccelIdle
    /\ SnapIdle
    /\ fpc = name
    /\ arg \in inputs
    /\ ret = <<>>

\* the call of `name` runs and returns `value`
CallReturn(name, value) ==
    /\ fpc = name
    /\ ret' = value
    /\ fpc' = "returned"
    /\ UNCHANGED <<arg, outsideCall>>

-----------------------------------------------------------------------------
\* Video-decode acceleration candidates (pipeline/acceleration.py).

MaxLines == 2

\* the text before and after str.strip().lower(), for the texts of this model
StripLower(raw) ==
    CASE raw = "Hardware acceleration methods:" -> "hardware acceleration methods:"
      [] raw = "VAAPI " -> "vaapi"
      [] raw = " CUDA" -> "cuda"
      [] raw = " " -> ""
      [] OTHER -> raw

\* "hardware acceleration methods" in line
IsHwaccelHeader(line) == line = "hardware acceleration methods:"

\* pref.split(","), each item stripped, empty items dropped
SplitPref(pref) ==
    CASE pref = "vaapi,cuda" -> <<"vaapi", "cuda">>
      [] pref = "cuda,,cuda" -> <<"cuda", "cuda">>
      [] pref = "" -> <<>>
      [] OTHER -> <<pref>>

\* _platform_hwaccel_preference, from platform.system().lower()
PlatformHwaccelPreference(system_name) ==
    IF system_name = "darwin" THEN <<"videotoolbox", "cuda">>
    ELSE IF system_name = "windows" THEN <<"cuda", "d3d11va", "dxva2", "qsv">>
    ELSE IF system_name = "linux" THEN <<"cuda", "vaapi", "qsv", "vdpau">>
    ELSE <<"cuda">>

\* the names loop of _ffmpeg_hwaccels over result.stdout.splitlines()
RECURSIVE HwaccelNames(_)
HwaccelNames(lines) ==
    IF lines = <<>> THEN <<>>
    ELSE LET line == StripLower(lines[Len(lines)])
             names == HwaccelNames(SubSeq(lines, 1, Len(lines) - 1))
         IN IF line = "" \/ IsHwaccelHeader(line) THEN names ELSE Append(names, line)

\* _ffmpeg_hwaccels: probe is what running `ffmpeg -hwaccels` did
FfmpegHwaccels(probe) ==
    IF probe.raises THEN <<>>
    ELSE IF probe.returncode # 0 THEN <<>>
    ELSE HwaccelNames(probe.stdout)

SeqRange(s) == {s[i] : i \in 1..Len(s)}

\* the first loop of _resolve_ffmpeg_hwaccel_flags: names neither filtered out
\* nor without flags
RequestedFlags(requested, available) ==
    LET kept == SelectSeq(requested,
                    LAMBDA name : /\ ~(available # <<>> /\ name \notin SeqRange(available))
                                  /\ HwaccelFlagsFor(name) # <<>>)
    IN [i \in 1..Len(kept) |-> HwaccelFlagsFor(kept[i])]

\* _resolve_ffmpeg_hwaccel_flags; a.env is DRUMSHEET_HWACCEL or "auto" when unset
ResolveFfmpegHwaccelFlags(a) ==
    LET pref == StripLower(a.env)
        available == FfmpegHwaccels(a.probe)
        requested == IF pref # "" /\ pref # "auto" THEN SplitPref(pref)
                     ELSE PlatformHwaccelPreference(StripLower(a.system))
        first == RequestedFlags(requested, available)
        flags == IF first = <<>> /\ pref \notin {"", "auto"}
                 THEN RequestedFlags(requested, <<>>)
                 ELSE first
    IN IF pref \in {"none", "off", "cpu"} THEN <<<<>>>>
       ELSE DedupSeq(Append(flags, <<>>))

\* what `ffmpeg -hwaccels` can print, line by line
HwaccelLines == {"Hardware acceleration methods:", " ", "cuda", "vaapi", "VAAPI ",
                 "videotoolbox", "drm"}

HwaccelStdouts == UNION {[1..n -> HwaccelLines] : n \in 0..MaxLines}

HwaccelProbes ==
    {[raises |-> TRUE, returncode |-> 0, stdout |-> <<>>],
     [raises |-> FALSE, returncode |-> 1, stdout |-> <<>>]}
    \cup {[raises |-> FALSE, returncode |-> 0, stdout |-> o] : o \in HwaccelStdouts}

HwaccelInputs ==
    [system : {"darwin", "windows", "linux", "freebsd"},
     env : {"auto", "", "cpu", " CUDA", "vaapi,cuda", "cuda,,cuda", "qsv"},
     probe : HwaccelProbes]

HwaccelInit == CallInit("_resolve_ffmpeg_hwaccel_flags", HwaccelInputs)

ResolveHwaccel ==
    CallReturn("_resolve_ffmpeg_hwaccel_flags", ResolveFfmpegHwaccelFlags(arg))

HwaccelNext == ResolveHwaccel

HwaccelSpec == HwaccelInit /\ [][HwaccelNext]_vars

\* the names the transcoder's -hwaccels output advertises
Advertised(probe) ==
    IF probe.raises \/ probe.returncode # 0 THEN {}
    ELSE {StripLower(probe.stdout[i]) : i \in 1..Len(probe.stdout)}
         \ {"", "hardware acceleration methods:"}

\* C11: with the preference left on auto, the candidate list is the
\* platform-preference names the transcoder advertises, in platform order,
\* then the CPU fallback (the empty flag set) as its single last element;
\* a name the transcoder does not advertise never appears in it.
C11_AutoListsOnlyAdvertised ==
    (fpc = "returned" /\ arg.env = "auto") =>
        LET wanted == SelectSeq(PlatformHwaccelPreference(arg.system),
                                LAMBDA name : name \in Advertised(arg.probe))
        IN ret = [i \in 1..Len(wanted) |-> HwaccelFlagsFor(wanted[i])] \o <<<<>>>>

-----------------------------------------------------------------------------
\* The process-wide acceleration cache (pipeline/acceleration.py, 36-56).

\* what `-hwaccels` of each transcoder binary a caller may name answers
FfmpegBins == {"ffmpeg", "/opt/ffmpeg/bin/ffmpeg"}

ProbeOf(ffmpeg_bin) ==
    IF ffmpeg_bin = "ffmpeg"
    THEN [raises |-> FALSE, returncode |-> 0,
          stdout |-> <<"Hardware acceleration methods:", "cuda">>]
    ELSE [raises |-> TRUE, returncode |-> 0, stdout |-> <<>>]

\* _detect_runtime_acceleration: the fields that depend on ffmpeg_bin
DetectRuntimeAcceleration(ffmpeg_bin) ==
    LET flags == ResolveFfmpegHwaccelFlags(
                     [system |-> "linux", env |-> "auto", probe |-> ProbeOf(ffmpeg_bin)])
    IN [ffmpeg_hwaccel_flags |-> flags,
        ffmpeg_mode_order |-> [i \in 1..Len(flags) |-> HwaccelModeName(flags[i])]]

\* a thread calls get_runtime_acceleration(logger=..., ffmpeg_bin=...)
AccelCall(t, ffmpeg_bin, logger) ==
    /\ tpc[t] = "idle"
    /\ tcalls[t] < MaxAccelCalls
    /\ tcalls' = [tcalls EXCEPT ![t] = @ + 1]
    /\ targ' = [targ EXCEPT ![t] = [ffmpeg_bin |-> ffmpeg_bin, logger |-> logger]]
    /\ tpc' = [tpc EXCEPT ![t] = "acquire"]
    /\ UNCHANGED <<accelCache, accelLogged, accelLock, taccel, returned, detectRuns,
                   outsideAccel>>

\* a lock that excludes nobody
LockFreeAlways(t) == TRUE

\* _LOCK can be taken
LockFree(t) == accelLock = 0

\* with _LOCK:
AccelAcquire(t) ==
    /\ tpc[t] = "acquire"
    /\ LockFree(t)
    /\ accelLock' = t
    /\ tpc' = [tpc EXCEPT ![t] = "check"]
    /\ UNCHANGED <<accelCache, accelLogged, targ, taccel, tcalls, returned, detectRuns,
                   outsideAccel>>

\* if _ACCELERATION_CACHE is None:
AccelCheck(t) ==
    /\ tpc[t] = "check"
    /\ tpc' = [tpc EXCEPT ![t] = IF accelCache = None THEN "detect" ELSE "read"]
    /\ UNCHANGED <<accelCache, accelLogged, accelLock, targ, taccel, tcalls, returned,
                   detectRuns, outsideAccel>>

\* _ACCELERATION_CACHE = _detect_runtime_acceleration(...); _ACCELERATION_LOGGED = False
AccelDetect(t) ==
    /\ tpc[t] = "detect"
    /\ accelCache' = Some(DetectRuntimeAcceleration(targ[t].ffmpeg_bin))
    /\ accelLogged' = FALSE
    /\ detectRuns' = detectRuns + 1
    /\ tpc' = [tpc EXCEPT ![t] = "read"]
    /\ UNCHANGED <<accelLock, targ, taccel, tcalls, returned, outsideAccel>>

\* accel = _ACCELERATION_CACHE
AccelRead(t) ==
    /\ tpc[t] = "read"
    /\ taccel' = [taccel EXCEPT ![t] = accelCache]
    /\ tpc' = [tpc EXCEPT ![t] = "log"]
    /\ UNCHANGED <<accelCache, accelLogged, accelLock, targ, tcalls, returned,
                   detectRuns, outsideAccel>>

\* if logger is not None and not _ACCELERATION_LOGGED: log, and set the flag
AccelLog(t) ==
    /\ tpc[t] = "log"
    /\ accelLogged' = IF targ[t].logger /\ ~accelLogged THEN TRUE ELSE accelLogged
    /\ tpc' = [tpc EXCEPT ![t] = "return"]
    /\ UNCHANGED <<accelCache, accelLock, targ, taccel, tcalls, returned, detectRuns,
                   outsideAccel>>

\* return accel, leaving the with block
AccelReturn(t) ==
    /\ tpc[t] = "return"
    /\ returned' = returned \cup {taccel[t]}
    /\ accelLock' = IF accelLock = t THEN 0 ELSE accelLock
    /\ taccel' = [taccel EXCEPT ![t] = None]
    /\ targ' = [targ EXCEPT ![t] = <<>>]
    /\ tpc' = [tpc EXCEPT ![t] = "idle"]
    /\ UNCHANGED <<accelCache, accelLogged, tcalls, detectRuns, outsideAccel>>

AccelInit == JobsIdle /\ CallIdle /\ AccelIdle /\ SnapIdle

AccelNext ==
    \E t \in AccelThreads :
        \/ \E b \in FfmpegBins, l \in BOOLEAN : AccelCall(t, b, l)
        \/ AccelAcquire(t)
        \/ AccelCheck(t)
        \/ AccelDetect(t)
        \/ AccelRead(t)
        \/ AccelLog(t)
        \/ AccelReturn(t)

AccelSpec == AccelInit /\ [][AccelNext]_vars

\* C12: however concurrent callers interleave, _detect_runtime_acceleration
\* runs once per process, every call returns the same value, and the
\* ffmpeg_bin and logger of later callers never change the published value.
C12_DetectOnceSameValue ==
    /\ detectRuns <= 1
    /\ Cardinality(returned) <= 1
    /\ returned # {} => detectRuns = 1 /\ returned = {accelCache}
    /\ \A t \in AccelThreads : taccel[t] # None => taccel[t] = accelCache

\* a call has returned, and a caller naming another binary, with a thread
\* waiting for the lock behind it, is about to return the published value
C12_Witness ==
    /\ returned # {}
    /\ \E t, u \in AccelThreads :
          /\ tpc[t] = "return"
          /\ taccel[t] # Some(DetectRuntimeAcceleration(targ[t].ffmpeg_bin))
          /\ tpc[u] = "acquire"

-----------------------------------------------------------------------------
\* Upscaling with engine fallback (pipeline/upscale.py, 20-107).

MaxPaths == 2

\* _upscale_engine_pref: DRUMSHEET_UPSCALE_ENGINE, "auto" unless an engine name
UpscaleEnginePref(value) ==
    IF value \in {"hat", "opencv", "ffmpeg"} THEN value ELSE "auto"

\* an order that ignores the preference
UpscaleEngineOrderFixed(pref) == <<"hat", "opencv", "ffmpeg">>

\* _upscale_engine_order
UpscaleEngineOrder(pref) ==
    IF pref = "hat" THEN <<"hat", "opencv", "ffmpeg">>
    ELSE IF pref = "opencv" THEN <<"opencv", "hat", "ffmpeg">>
    ELSE IF pref = "ffmpeg" THEN <<"ffmpeg", "opencv", "hat">>
    ELSE <<"hat", "opencv", "ffmpeg">>

\* what the engine's own function returns: one upscaled file per input
EngineOutput(engine, frame_paths) ==
    [i \in 1..Len(frame_paths) |-> <<"upscaled", engine, i>>]

\* one round of the loop of upscale_frames for `engine`:
\* "skip" (continue, nothing recorded), "error" (recorded, continue), "return"
EngineRound(engine, a) ==
    IF engine = "hat" THEN
        IF ~a.hat.enabled THEN [kind |-> "skip"]
        ELSE IF ~a.hat.available
        THEN [kind |-> "error", text |-> "hat_unavailable"]
        ELSE IF a.gpu_only /\ a.hat.run_device = "cpu" /\ ~a.hat.allow_cpu
        THEN [kind |-> "error", text |-> "hat_cpu_disallowed"]
        ELSE IF "hat" \in a.raising THEN [kind |-> "error", text |-> "hat: exc"]
        ELSE [kind |-> "return"]
    ELSE IF engine = "opencv" THEN
        IF a.opencv_mode \notin {"cuda", "opencl"} THEN [kind |-> "skip"]
        ELSE IF "opencv" \in a.raising
        THEN [kind |-> "error", text |-> "opencv: exc"]
        ELSE [kind |-> "return"]
    ELSE
        IF ~a.ffmpeg_scale_vt_available THEN [kind |-> "skip"]
        ELSE IF "ffmpeg" \in a.raising
        THEN [kind |-> "error", text |-> "ffmpeg_scale_vt: exc"]
        ELSE [kind |-> "return"]

\* attempt_errors[-4:]
LastFour(errors) ==
    IF Len(errors) <= 4 THEN errors ELSE SubSeq(errors, Len(errors) - 3, Len(errors))

\* the loop over the engines from position i on, and the raise after it
RECURSIVE UpscaleLoop(_, _, _, _)
UpscaleLoop(order, i, attempt_errors, a) ==
    IF i > Len(order)
    THEN [kind |-> "raise", paths |-> <<>>, attempt_errors |-> attempt_errors,
          message |-> IF attempt_errors # <<>>
                      THEN <<"GPU-only upscaling failed">> \o LastFour(attempt_errors)
                      ELSE <<"GPU-only upscaling requires HAT or OpenCV GPU mode or ffmpeg scale_vt">>]
    ELSE LET round == EngineRound(order[i], a)
         IN IF round.kind = "return"
            THEN [kind |-> "return", paths |-> EngineOutput(order[i], a.frame_paths),
                  attempt_errors |-> attempt_errors, message |-> <<>>]
            ELSE IF round.kind = "error"
            THEN UpscaleLoop(order, i + 1, Append(attempt_errors, round.text), a)
            ELSE UpscaleLoop(order, i + 1, attempt_errors, a)

\* upscale_frames
UpscaleFrames(a) ==
    IF a.frame_paths = <<>>
    THEN [kind |-> "return", paths |-> <<>>, attempt_errors |-> <<>>, message |-> <<>>]
    ELSE IF ~a.enable
    THEN [kind |-> "return", paths |-> a.frame_paths, attempt_errors |-> <<>>,
          message |-> <<>>]
    ELSE UpscaleLoop(UpscaleEngineOrder(UpscaleEnginePref(a.env)), 1, <<>>, a)

\* get_hat_runtime(): disabled, not installed, on a CPU without and with the
\* override, on the GPU
HatRuntimes ==
    {[enabled |-> FALSE, available |-> FALSE, run_device |-> "none", allow_cpu |-> FALSE],
     [enabled |-> TRUE, available |-> FALSE, run_device |-> "none", allow_cpu |-> FALSE],
     [enabled |-> TRUE, available |-> FALSE, run_device |-> "cpu", allow_cpu |-> FALSE],
     [enabled |-> TRUE, available |-> TRUE, run_device |-> "cpu", allow_cpu |-> TRUE],
     [enabled |-> TRUE, available |-> TRUE, run_device |-> "cuda", allow_cpu |-> FALSE]}

\* the arguments, DRUMSHEET_UPSCALE_ENGINE (which as "hat" enables the neural
\* engine), the runtimes, and the engines that raise when run
UpscaleInputs ==
    {a \in [frame_paths : {[i \in 1..n |-> <<"stitched", i>>] : n \in 0..MaxPaths},
            enable : BOOLEAN,
            gpu_only : BOOLEAN,
            env : {"auto", "opencv", "ffmpeg", "hat", "cpu"},
            hat : HatRuntimes,
            opencv_mode : {"cuda", "opencl", "cpu"},
            ffmpeg_scale_vt_available : BOOLEAN,
            raising : SUBSET {"hat", "opencv", "ffmpeg"}] :
        a.env = "hat" => a.hat.enabled}

UpscaleInit == CallInit("upscale_frames", UpscaleInputs)

Upscale == CallReturn("upscale_frames", UpscaleFrames(arg))

UpscaleNext == Upscale

UpscaleSpec == UpscaleInit /\ [][UpscaleNext]_vars

\* the claim's engines in its preference order for DRUMSHEET_UPSCALE_ENGINE
PreferenceOrder(env) ==
    CASE env = "opencv" -> <<"opencv", "hat", "ffmpeg">>
      [] env = "ffmpeg" -> <<"ffmpeg", "opencv", "hat">>
      [] OTHER -> <<"hat", "opencv", "ffmpeg">>

\* the engine can be run on this machine
EngineAvailable(engine, a) ==
    CASE engine = "hat" ->
            /\ a.hat.enabled /\ a.hat.available
            /\ ~(a.gpu_only /\ a.hat.run_device = "cpu" /\ ~a.hat.allow_cpu)
      [] engine = "opencv" -> a.opencv_mode \in {"cuda", "opencl"}
      [] OTHER -> a.ffmpeg_scale_vt_available

EngineSucceeds(engine, a) == EngineAvailable(engine, a) /\ engine \notin a.raising

\* the engines of the order before its first success, all of them when none succeeds
FailedEngines(order, a) ==
    LET ok == {i \in 1..Len(order) : EngineSucceeds(order[i], a)}
    IN SubSeq(order, 1, IF ok = {} THEN Len(order) ELSE MinOf(ok) - 1)

\* the outcome the claim describes, given which failed engines leave an error
UpscaleOutcome(a, r, Records(_)) ==
    LET order == PreferenceOrder(a.env)
        failed == FailedEngines(order, a)
        recording == SelectSeq(failed, Records)
    IN /\ Len(r.attempt_errors) = Len(recording)
       /\ IF Len(failed) < Len(order)
          THEN r.kind = "return" /\ r.paths = EngineOutput(order[Len(failed) + 1], a.frame_paths)
          ELSE r.kind = "raise" /\ r.paths = <<>> /\ r.message # <<>>

\* C13 as stated: disabled upscaling passes the input paths through; enabled,
\* the engines are tried in preference order, every unavailable or raising
\* engine leaves an error and the next is tried, the first success is
\* returned, and with no success one aggregated error is raised.
C13_EveryFailedEngineRecorded ==
    fpc = "returned" /\ arg \in UpscaleInputs =>
        IF ~arg.enable
        THEN ret.kind = "return" /\ ret.paths = arg.frame_paths
        ELSE UpscaleOutcome(arg, ret, LAMBDA e : TRUE)

\* the engine leaves an error: it raised, or it is the neural engine
\* enabled but unusable
LeavesError(engine, a) ==
    \/ EngineAvailable(engine, a)
    \/ engine = "hat" /\ a.hat.enabled

\* C13 amended: the same with no input path returning the empty list, and an
\* unavailable engine skipped without an error unless it is the neural
\* engine enabled but unusable.
C13_EngineFallback ==
    fpc = "returned" /\ arg \in UpscaleInputs =>
        IF ~arg.enable \/ arg.frame_paths = <<>>
        THEN ret.kind = "return" /\ ret.paths = arg.frame_paths
        ELSE UpscaleOutcome(arg, ret, LAMBDA e : LeavesError(e, arg))

\* the preferred engine raised, the next one is unavailable, the last succeeded
C13_Witness ==
    /\ fpc = "returned" /\ arg \in UpscaleInputs
    /\ arg.enable /\ arg.env = "opencv" /\ "opencv" \in arg.raising
    /\ arg.opencv_mode = "cuda" /\ ~arg.hat.enabled
    /\ ret.kind = "return" /\ ret.paths = EngineOutput("ffmpeg", arg.frame_paths)
    /\ Len(ret.paths) = MaxPaths

-----------------------------------------------------------------------------
\* Layout resolution (pipeline/layout_profiles.py), as detect_sheet_regions
\* calls it.

LAYOUT_BOTTOM_BAR == "bottom_bar"
LAYOUT_FULL_SCROLL == "full_scroll"
LAYOUT_PAGE_TURN == "page_turn"

\* DETECTION_PROFILES: the fields the detector reads, thresholds in hundredths
DETECTION_PROFILES ==
    [m \in {LAYOUT_BOTTOM_BAR, LAYOUT_FULL_SCROLL, LAYOUT_PAGE_TURN} |->
        CASE m = LAYOUT_BOTTOM_BAR ->
                [key |-> m, prefer_bottom |-> TRUE, confidence_threshold |-> 42,
                 fallback_mode |-> "bottom"]
          [] m = LAYOUT_FULL_SCROLL ->
                [key |-> m, prefer_bottom |-> FALSE, confidence_threshold |-> 36,
                 fallback_mode |-> "full_page"]
          [] OTHER ->
                [key |-> m, prefer_bottom |-> FALSE, confidence_threshold |-> 34,
                 fallback_mode |-> "full_page"]]

\* a resolution in which prefer_bottom overrides an explicit hint
ResolveLayoutHintPreferFirst(layout_hint, source_type, prefer_bottom) ==
    IF prefer_bottom = Some(TRUE) THEN LAYOUT_BOTTOM_BAR
    ELSE IF prefer_bottom = Some(FALSE) THEN LAYOUT_FULL_SCROLL
    ELSE IF layout_hint \in {Some(m) : m \in DOMAIN DETECTION_PROFILES} THEN layout_hint[1]
    ELSE IF source_type = Some("youtube") THEN LAYOUT_BOTTOM_BAR
    ELSE LAYOUT_FULL_SCROLL

\* resolve_layout_hint; an Optional argument is None or Some(value)
ResolveLayoutHint(layout_hint, source_type, prefer_bottom) ==
    IF layout_hint \in {Some(m) : m \in DOMAIN DETECTION_PROFILES} THEN layout_hint[1]
    ELSE IF prefer_bottom = Some(TRUE) THEN LAYOUT_BOTTOM_BAR
    ELSE IF prefer_bottom = Some(FALSE) THEN LAYOUT_FULL_SCROLL
    ELSE IF source_type = Some("youtube") THEN LAYOUT_BOTTOM_BAR
    ELSE LAYOUT_FULL_SCROLL

\* get_detection_profile
GetDetectionProfile(layout_mode) ==
    IF layout_mode \in DOMAIN DETECTION_PROFILES
    THEN DETECTION_PROFILES[layout_mode]
    ELSE DETECTION_PROFILES[LAYOUT_FULL_SCROLL]

LayoutInputs ==
    [layout_hint : {None, Some("auto"), Some("bottom_bar"), Some("full_scroll"),
                    Some("page_turn"), Some("PAGE_TURN")},
     source_type : {None, Some("file"), Some("youtube")},
     prefer_bottom : {None, Some(TRUE), Some(FALSE)}]

LayoutInit == CallInit("resolve_layout_hint", LayoutInputs)

\* layout_mode = resolve_layout_hint(...)
ResolveLayout ==
    /\ fpc = "resolve_layout_hint"
    /\ ret' = [layout_mode |-> ResolveLayoutHint(arg.layout_hint, arg.source_type,
                                                 arg.prefer_bottom)]
    /\ fpc' = "get_detection_profile"
    /\ UNCHANGED <<arg, outsideCall>>

\* profile = get_detection_profile(layout_mode)
ResolveProfile ==
    /\ fpc = "get_detection_profile"
    /\ ret' = [layout_mode |-> ret.layout_mode,
               profile |-> GetDetectionProfile(ret.layout_mode)]
    /\ fpc' = "returned"
    /\ UNCHANGED <<arg, outsideCall>>

LayoutNext == ResolveLayout \/ ResolveProfile

LayoutSpec == LayoutInit /\ [][LayoutNext]_vars

\* C14: an explicit layout_hint of bottom_bar, full_scroll or page_turn is
\* returned whatever prefer_bottom and the source kind are; otherwise
\* prefer_bottom decides (true: bottom_bar, false: full_scroll) whatever the
\* source kind is; otherwise a youtube source gives bottom_bar and a local
\* file full_scroll.
C14_HintThenPreferThenSource ==
    fpc \in {"get_detection_profile", "returned"} /\ arg \in LayoutInputs =>
        LET explicit == arg.layout_hint \in
                            {Some("bottom_bar"), Some("full_scroll"), Some("page_turn")}
        IN /\ explicit => ret.layout_mode = arg.layout_hint[1]
           /\ ~explicit /\ arg.prefer_bottom = Some(TRUE) => ret.layout_mode = "bottom_bar"
           /\ ~explicit /\ arg.prefer_bottom = Some(FALSE) => ret.layout_mode = "full_scroll"
           /\ ~explicit /\ arg.prefer_bottom = None /\ arg.source_type = Some("youtube")
                  => ret.layout_mode = "bottom_bar"
           /\ ~explicit /\ arg.prefer_bottom = None /\ arg.source_type = Some("file")
                  => ret.layout_mode = "full_scroll"

\* an explicit page_turn hint was returned against prefer_bottom and a
\* youtube source
C14_Witness ==
    /\ fpc = "returned" /\ arg \in LayoutInputs
    /\ arg.layout_hint = Some("page_turn")
    /\ arg.prefer_bottom = Some(TRUE)
    /\ arg.source_type = Some("youtube")
    /\ ret.layout_mode = "page_turn"

-----------------------------------------------------------------------------
\* Reading a Job while set_state writes it (job_store.py, 36-46 and 60-97;
\* main.py, 312-317).

MaxReads == 2

\* the fields set_state assigns, in its order, which is also the order in
\* which to_public_dict reads them
SnapFields == <<"status", "progress", "current_step", "message", "result", "error_code">>

\* the fields of a Job as a tuple in that order
FieldsOf(job) == [k \in 1..Len(SnapFields) |-> job[SnapFields[k]]]

\* the Job when the stitch stage is over
StitchedJob ==
    [NewJob EXCEPT !.status = RUNNING, !.progress = StageProgress("stitch"),
                   !.current_step = StageStep("stitch"),
                   !.message = "stitching completed"]

\* the arguments of the set_state calls _run_job makes from there: the
\* upscale boundary and the final state, or the except clause's call
SetStateArgs(status, progress, current_step, message, result, error_code) ==
    [status |-> Some(status), progress |-> progress, current_step |-> current_step,
     message |-> message, result |-> result, error_code |-> error_code]

RemainingCalls ==
    {<<SetStateArgs(RUNNING, Some(StageProgress("upscale")), Some(StageStep("upscale")),
                    Some("upscaling completed"), None, None),
       SetStateArgs(DONE, Some(StageProgress("export")), Some(StageStep("export")),
                    Some("export finished"), Some(DoneResult(ExportKeys(1))), None)>>,
     <<SetStateArgs(ERROR, Some(StageProgress("failed")), Some(StageStep("failed")),
                    Some("job failed"), Some(FailResult(<<>>)), Some(FailErrorCode))>>}

\* the Job as the whole call leaves it
AfterCall(job, c) ==
    SetState(<<job>>, 1, c.status[1], c.progress, c.current_step, c.message,
             c.result, c.error_code)[1]

SnapInit ==
    /\ JobsIdle /\ CallIdle /\ AccelIdle
    /\ sjob = StitchedJob
    /\ slock = "free"
    /\ scalls \in RemainingCalls
    /\ spos = 0
    /\ rpc = "idle"
    /\ rsnap = <<>>
    /\ rreads = 0
    /\ whole = {FieldsOf(StitchedJob)}

\* set_state: with self._lock, job found
SetStateEnter ==
    /\ spos = 0
    /\ scalls # <<>>
    /\ slock = "free"
    /\ slock' = "worker"
    /\ spos' = 1
    /\ whole' = whole \cup {FieldsOf(AfterCall(sjob, Head(scalls)))}
    /\ UNCHANGED <<sjob, scalls, rpc, rsnap, rreads, outsideSnap>>

\* the value an assignment of set_state gives the field
AssignedValue(field, job, c) ==
    IF c[field] = None THEN job[field]
    ELSE IF field = "progress" THEN ClampProgress(c[field][1])
    ELSE c[field][1]

\* job.<field> = ..., one assignment of set_state
SetStateAssign ==
    /\ spos \in 1..Len(SnapFields)
    /\ sjob' = [sjob EXCEPT ![SnapFields[spos]] =
                    AssignedValue(SnapFields[spos], sjob, Head(scalls))]
    /\ spos' = spos + 1
    /\ UNCHANGED <<slock, scalls, rpc, rsnap, rreads, whole, outsideSnap>>

\* leaving the with block of set_state
SetStateLeave ==
    /\ spos = Len(SnapFields) + 1
    /\ slock' = "free"
    /\ scalls' = Tail(scalls)
    /\ spos' = 0
    /\ UNCHANGED <<sjob, rpc, rsnap, rreads, whole, outsideSnap>>

\* get_job: job_store.get takes the lock
GetEnter ==
    /\ rpc = "idle"
    /\ rreads < MaxReads
    /\ slock = "free"
    /\ slock' = "reader"
    /\ rpc' = "get"
    /\ rsnap' = <<>>
    /\ rreads' = rreads + 1
    /\ UNCHANGED <<sjob, scalls, spos, whole, outsideSnap>>

\* job_store.get returns the Job object itself and releases the lock
GetLeave ==
    /\ rpc = "get"
    /\ slock' = "free"
    /\ rpc' = "read"
    /\ UNCHANGED <<sjob, scalls, spos, rsnap, rreads, whole, outsideSnap>>

\* to_public_dict reads the next field of the Job
ReadField ==
    /\ rpc = "read"
    /\ Len(rsnap) < Len(SnapFields)
    /\ rsnap' = Append(rsnap, sjob[SnapFields[Len(rsnap) + 1]])
    /\ rpc' = IF Len(rsnap) + 1 = Len(SnapFields) THEN "done" ELSE "read"
    /\ UNCHANGED <<sjob, slock, scalls, spos, rreads, whole, outsideSnap>>

\* the response has been sent
GetDone ==
    /\ rpc = "done"
    /\ rpc' = "idle"
    /\ rsnap' = <<>>
    /\ UNCHANGED <<sjob, slock, scalls, spos, rreads, whole, outsideSnap>>

SnapNext ==
    \/ SetStateEnter \/ SetStateAssign \/ SetStateLeave
    \/ GetEnter \/ GetLeave \/ ReadField \/ GetDone

SnapSpec == SnapInit /\ [][SnapNext]_vars

\* C15: a snapshot read through get while the worker is inside set_state
\* equals the Job's fields before or after that whole call, never a mix of
\* old and new fields.
C15_SnapshotIsWhole ==
    rpc = "done" => rsnap \in whole

-----------------------------------------------------------------------------
\* C16: however create_job and clear_cache interleave, no step of the
\* deletion loop of clear_cache, nor its clear_all, takes away the artifact
\* directory, a file in it, or the store record of a job that is queued or
\* running at that moment.
C16_ClearCacheSparesActiveJobs ==
    [][ccpc = "remove" =>
          \A j \in active_job_ids(store) :
              /\ j \in DOMAIN store'
              /\ j \in dirs => j \in dirs'
              /\ FilesUnder(fs, j) \subseteq DOMAIN fs']_vars

-----------------------------------------------------------------------------
\* Corner ordering (pipeline/detect.py, 654-663; pipeline/rectify.py, 55-64).

MaxCoord == 2

\* pts.sum(axis=1) of one point <<x, y>>
PointSum(p) == p[1] + p[2]

\* a difference taken the other way round
PointDiffXMinusY(p) == p[1] - p[2]

\* np.diff(pts, axis=1) of one point <<x, y>>: y - x
PointDiff(p) == p[2] - p[1]

\* np.argmin: the first index of the smallest value
ArgMin(values) ==
    MinOf({i \in 1..Len(values) : \A k \in 1..Len(values) : values[i] <= values[k]})

\* np.argmax: the first index of the largest value
ArgMax(values) ==
    MinOf({i \in 1..Len(values) : \A k \in 1..Len(values) : values[i] >= values[k]})

\* _order_points of detect.py
DetectOrderPoints(pts) ==
    LET sums == [i \in 1..Len(pts) |-> PointSum(pts[i])]
        diff == [i \in 1..Len(pts) |-> PointDiff(pts[i])]
    IN <<pts[ArgMin(sums)], pts[ArgMin(diff)], pts[ArgMax(sums)], pts[ArgMax(diff)]>>

\* _order_points of rectify.py
RectifyOrderPoints(points) ==
    LET sums == [i \in 1..Len(points) |-> PointSum(points[i])]
        d == [i \in 1..Len(points) |-> PointDiff(points[i])]
    IN <<points[ArgMin(sums)], points[ArgMin(d)], points[ArgMax(sums)], points[ArgMax(d)]>>

GridPoints == (0..MaxCoord) \X (0..MaxCoord)

\* four different points, in any order
OrderInputs ==
    {p \in [1..4 -> GridPoints] : \A i, k \in 1..4 : i # k => p[i] # p[k]}

OrderInit == CallInit("_order_points", OrderInputs)

\* the detector orders the corners of a region
OrderPoints ==
    /\ fpc = "_order_points"
    /\ ret' = [detect |-> DetectOrderPoints(arg), rectify |-> RectifyOrderPoints(arg)]
    /\ fpc' = "ordered"
    /\ UNCHANGED <<arg, outsideCall>>

\* the rectifier orders the corners of the detector's region again
OrderPointsAgain ==
    /\ fpc = "ordered"
    /\ ret' = [detect |-> ret.detect, rectify |-> ret.rectify,
               detect_again |-> DetectOrderPoints(ret.detect),
               rectify_again |-> RectifyOrderPoints(ret.rectify)]
    /\ fpc' = "returned"
    /\ UNCHANGED <<arg, outsideCall>>

OrderNext == OrderPoints \/ OrderPointsAgain

OrderSpec == OrderInit /\ [][OrderNext]_vars

\* the corners picked by extremes of x + y and of the given difference
CornersBy(p, Diff(_)) ==
    LET sums == [i \in 1..4 |-> p[i][1] + p[i][2]]
        diffs == [i \in 1..4 |-> Diff(p[i])]
    IN [tl |-> p[ArgMin(sums)], br |-> p[ArgMax(sums)],
        tr |-> p[ArgMin(diffs)], bl |-> p[ArgMax(diffs)]]

InOrder(out, corners) == out = <<corners.tl, corners.tr, corners.br, corners.bl>>

\* C19 as stated: the result is [top-left, top-right, bottom-right,
\* bottom-left] with top-left = argmin(x+y), bottom-right = argmax(x+y),
\* top-right = argmin(x-y), bottom-left = argmax(x-y).
C19_CornersByXMinusY ==
    fpc \in {"ordered", "returned"} /\ arg \in OrderInputs =>
        LET corners == CornersBy(arg, LAMBDA q : q[1] - q[2])
        IN InOrder(ret.detect, corners) /\ InOrder(ret.rectify, corners)

\* C19 amended: the same with top-right = argmin(y-x) and
\* bottom-left = argmax(y-x).
C19_CornersByYMinusX ==
    fpc \in {"ordered", "returned"} /\ arg \in OrderInputs =>
        LET corners == CornersBy(arg, LAMBDA q : q[2] - q[1])
        IN InOrder(ret.detect, corners) /\ InOrder(ret.rectify, corners)

\* the corners of a rectangle, given out of order, came back in order
C19_Witness ==
    /\ fpc = "ordered"
    /\ arg = <<<<MaxCoord, MaxCoord>>, <<0, 0>>, <<0, MaxCoord - 1>>, <<MaxCoord, 0>>>>
    /\ ret.detect = <<<<0, 0>>, <<MaxCoord, 0>>, <<MaxCoord, MaxCoord>>, <<0, MaxCoord - 1>>>>
    /\ ret.rectify = ret.detect

\* C20: ordering the ordered points again changes nothing, for every four
\* points, ties on x+y or on x-y included, in both copies of the function.
C20_OrderPointsIdempotent ==
    fpc = "returned" =>
        /\ ret.detect_again = ret.detect
        /\ ret.rectify_again = ret.rectify

-----------------------------------------------------------------------------
\* Automatic region detection over a frame sequence (pipeline/detect.py,
\* 61-118).  A region is an axis-aligned rectangle <<x1, y1, x2, y2>>; an
\* emitted region is in half pixels, so that a median of two is a whole number.

MaxDetectFrames == 6

\* candidate regions of a frame of FrameW x FrameH pixels
RegionA == <<4, 4, 30, 30>>
RegionB == <<6, 4, 34, 30>>
RegionC == <<30, 30, 38, 34>>

\* what cv2.imread and the candidate search give for one frame: unreadable,
\* or the candidates in order with their combined scores in hundredths
Candidate(roi, score) == [roi |-> roi, score |-> score]

FrameChoices ==
    {[readable |-> FALSE, candidates |-> <<>>],
     [readable |-> TRUE, candidates |-> <<>>],
     [readable |-> TRUE, candidates |-> <<Candidate(RegionC, 42)>>],
     [readable |-> TRUE, candidates |-> <<Candidate(RegionA, 30), Candidate(RegionB, 38)>>],
     [readable |-> TRUE, candidates |-> <<Candidate(RegionB, 90), Candidate(RegionA, 90)>>]}

\* the loop of _pick_best_candidate from candidate i on: a strictly higher
\* score replaces the best so far
RECURSIVE PickBestLoop(_, _, _, _)
PickBestLoop(candidates, i, best, best_score) ==
    IF i > Len(candidates) THEN [roi |-> best, confidence |-> Max2(0, Min2(100, best_score))]
    ELSE IF candidates[i].score > best_score
    THEN PickBestLoop(candidates, i + 1, Some(candidates[i].roi), candidates[i].score)
    ELSE PickBestLoop(candidates, i + 1, best, best_score)

\* _pick_best_candidate
PickBestCandidate(candidates) ==
    IF candidates = <<>> THEN [roi |-> None, confidence |-> 0]
    ELSE PickBestLoop(candidates, 1, None, -100)

\* int(size * percent / 100)
Fraction(size, percent) == (size * percent) \div 100

\* _default_roi_for_layout on a frame of FrameW x FrameH
DefaultRoiForLayout(profile) ==
    IF profile.fallback_mode = "bottom"
    THEN <<Fraction(FrameW, 4), Fraction(FrameH, 56), Fraction(FrameW, 96), Fraction(FrameH, 96)>>
    ELSE IF profile.fallback_mode = "full_page"
    THEN <<Fraction(FrameW, 3), Fraction(FrameH, 6), Fraction(FrameW, 97), Fraction(FrameH, 95)>>
    ELSE <<Fraction(FrameW, 8), Fraction(FrameH, 20), Fraction(FrameW, 92), Fraction(FrameH, 90)>>

\* cv2.boundingRect of the corners of a region
BoundingRect(r) == [x |-> r[1], y |-> r[2], w |-> r[3] - r[1] + 1, h |-> r[4] - r[2] + 1]

\* _temporal_iou_score(roi, previous_roi) < 0.16
IouBelowTransition(roi, previous_roi) ==
    LET a == BoundingRect(roi)
        b == BoundingRect(previous_roi)
        inter_w == Max2(0, Min2(a.x + a.w, b.x + b.w) - Max2(a.x, b.x))
        inter_h == Max2(0, Min2(a.y + a.h, b.y + b.h) - Max2(a.y, b.y))
        inter == inter_w * inter_h
        union == a.w * a.h + b.w * b.h - inter
    IN IF union <= 0 THEN TRUE ELSE 100 * inter < 16 * union

\* a history that is never shorter in page_turn mode
HistoryMaxlenFive(layout_mode) == 5

\* deque(maxlen=3 if layout_mode == LAYOUT_PAGE_TURN else 5)
HistoryMaxlen(layout_mode) == IF layout_mode = LAYOUT_PAGE_TURN THEN 3 ELSE 5

\* deque.append on a deque of that maxlen
DequeAppend(history, roi, maxlen) ==
    LET all == Append(history, roi)
    IN IF Len(all) <= maxlen THEN all ELSE SubSeq(all, Len(all) - maxlen + 1, Len(all))

\* the numbers of a list in ascending order
SortedValues(values) ==
    LET n == Len(values)
        before(k, i) == values[k] < values[i] \/ (values[k] = values[i] /\ k < i)
        rank(i) == 1 + Cardinality({k \in 1..n : before(k, i)})
    IN [pos \in 1..n |-> values[CHOOSE i \in 1..n : rank(i) = pos]]

\* twice np.median of a list of numbers
MedianTwice(values) ==
    LET sorted == SortedValues(values)
        n == Len(values)
    IN IF n % 2 = 1 THEN 2 * sorted[(n + 1) \div 2]
       ELSE sorted[n \div 2] + sorted[n \div 2 + 1]

\* _smooth_roi: np.median(history, axis=0), in half pixels
SmoothRoi(history) ==
    [c \in 1..4 |-> MedianTwice([i \in 1..Len(history) |-> history[i][c]])]

\* a region in half pixels
Twice(roi) == [c \in 1..4 |-> 2 * roi[c]]

\* a comparison that rejects a score equal to the threshold
AcceptsAbove(confidence, profile) == confidence > profile.confidence_threshold

\* not (confidence < profile.confidence_threshold)
Accepts(confidence, profile) == ~(confidence < profile.confidence_threshold)

\* one turn of the loop of detect_sheet_regions, on frame number idx;
\* r.accepted is the history of every region the loop appended
DetectStep(layout_mode, r, frame, idx) ==
    IF ~frame.readable
    THEN [r EXCEPT !.detections =
              Append(@, [roi |-> None, score |-> 0, frame_index |-> idx])]
    ELSE
    LET profile == GetDetectionProfile(layout_mode)
        previous_roi == IF r.history = <<>> THEN None
                        ELSE Some(r.history[Len(r.history)])
        picked == PickBestCandidate(frame.candidates)
        low == picked.roi = None \/ ~Accepts(picked.confidence, profile)
        roi == IF previous_roi # None /\ low THEN previous_roi[1]
               ELSE IF low THEN DefaultRoiForLayout(profile)
               ELSE picked.roi[1]
        confidence == IF low THEN Max2(picked.confidence, profile.confidence_threshold)
                      ELSE picked.confidence
        kept == IF /\ layout_mode = LAYOUT_PAGE_TURN
                   /\ previous_roi # None
                   /\ IouBelowTransition(roi, previous_roi[1])
                THEN <<>> ELSE r.history
        history == DequeAppend(kept, roi, HistoryMaxlen(layout_mode))
        roi_out == IF layout_mode = LAYOUT_PAGE_TURN THEN Twice(roi) ELSE SmoothRoi(history)
    IN [history |-> history,
        detections |-> Append(r.detections,
                              [roi |-> Some(roi_out),
                               score |-> Max2(0, Min2(100, confidence)),
                               frame_index |-> idx]),
        accepted |-> Append(r.accepted, roi)]

DetectInputs ==
    [layout_mode : {LAYOUT_BOTTOM_BAR, LAYOUT_FULL_SCROLL, LAYOUT_PAGE_TURN},
     frames : {<<>>}]

\* detect_sheet_regions in auto mode, before its loop
DetectInit ==
    /\ JobsIdle /\ AccelIdle /\ SnapIdle
    /\ fpc = "detect_sheet_regions"
    /\ arg \in DetectInputs
    /\ ret = [history |-> <<>>, detections |-> <<>>, accepted |-> <<>>]

\* the loop takes the next frame of frame_paths
DetectFrame ==
    /\ fpc = "detect_sheet_regions"
    /\ Len(arg.frames) < MaxDetectFrames
    /\ \E frame \in FrameChoices :
          /\ arg' = [arg EXCEPT !.frames = Append(@, frame)]
          /\ ret' = DetectStep(arg.layout_mode, ret, frame, Len(arg.frames))
    /\ UNCHANGED <<fpc, outsideCall>>

\* return detections
DetectReturn ==
    /\ fpc = "detect_sheet_regions"
    /\ fpc' = "returned"
    /\ UNCHANGED <<arg, ret, outsideCall>>

DetectNext == DetectFrame \/ DetectReturn

DetectSpec == DetectInit /\ [][DetectNext]_vars

\* the run of detect_sheet_regions this state belongs to
Detecting ==
    /\ arg \in [layout_mode : DOMAIN DETECTION_PROFILES, frames : Seq(FrameChoices)]
    /\ DOMAIN ret = {"history", "detections", "accepted"}

\* the number of readable frames among the first i
ReadableUpTo(i) == Cardinality({k \in 1..i : arg.frames[k].readable})

\* the candidate with the highest score, the first of them on a tie
HighestScoring(candidates) ==
    LET top == {i \in 1..Len(candidates) :
                   \A k \in 1..Len(candidates) : candidates[k].score <= candidates[i].score}
    IN candidates[MinOf(top)]

\* the region the rule of C17 gives frame i, the n-th readable one
RuleRegion(i, n) ==
    LET profile == DETECTION_PROFILES[arg.layout_mode]
        candidates == arg.frames[i].candidates
    IN IF /\ candidates # <<>>
          /\ HighestScoring(candidates).score >= profile.confidence_threshold
       THEN HighestScoring(candidates).roi
       ELSE IF n > 1 THEN ret.accepted[n - 1]
       ELSE DefaultRoiForLayout(profile)

LastN(seq, n) == SubSeq(seq, Len(seq) - n + 1, Len(seq))

\* the middle value of a list of numbers, doubled: half of the others are
\* not above it and half not below
IsMedianTwice(m, values) ==
    \E lo, hi \in 1..Len(values) :
        /\ m = values[lo] + values[hi]
        /\ values[lo] <= values[hi]
        /\ 2 * Cardinality({i \in 1..Len(values) : values[i] < values[lo]}) < Len(values)
        /\ 2 * Cardinality({i \in 1..Len(values) : values[i] > values[hi]}) < Len(values)
        /\ 2 * Cardinality({i \in 1..Len(values) : values[i] <= values[lo]}) >= Len(values)
        /\ 2 * Cardinality({i \in 1..Len(values) : values[i] >= values[hi]}) >= Len(values)
        /\ \A i \in 1..Len(values) : ~(values[lo] < values[i] /\ values[i] < values[hi])

\* C18: the history never holds more than 3 regions in page_turn mode, 5
\* otherwise, and is the most recent accepted regions in order; the emitted
\* region is the component-wise median of the history, in page_turn mode the
\* raw region; and in page_turn mode a region whose IoU with the previous
\* one is below 0.16 clears the history, which then holds that region alone.
C18_HistoryAndSmoothing ==
    [][(Detecting /\ Detecting' /\ Len(arg'.frames) = Len(arg.frames) + 1
        /\ arg'.frames[Len(arg'.frames)].readable) =>
          LET mode == arg.layout_mode
              cap == IF mode = "page_turn" THEN 3 ELSE 5
              h == ret'.history
              roi == ret'.accepted[Len(ret'.accepted)]
              emitted == ret'.detections[Len(ret'.detections)].roi[1]
              transition == /\ mode = "page_turn"
                            /\ ret.history # <<>>
                            /\ IouBelowTransition(roi, ret.history[Len(ret.history)])
          IN /\ Len(h) <= cap
             /\ h = LastN(ret'.accepted, Len(h))
             /\ IF transition THEN h = <<roi>>
                ELSE Len(h) = Min2(cap, Len(ret.history) + 1)
             /\ IF mode = "page_turn" THEN emitted = Twice(roi)
                ELSE \A c \in 1..4 :
                        IsMedianTwice(emitted[c], [i \in 1..Len(h) |-> h[i][c]])]_vars

\* in full_scroll mode the sixth accepted region pushed the fallback
\* rectangle out of a full history, and the median of the five was emitted
C18_Witness ==
    /\ Detecting
    /\ arg.layout_mode = LAYOUT_FULL_SCROLL
    /\ ret.accepted = <<DefaultRoiForLayout(DETECTION_PROFILES[LAYOUT_FULL_SCROLL]),
                        RegionC, RegionB, RegionC, RegionB, RegionB>>
    /\ ret.history = <<RegionC, RegionB, RegionC, RegionB, RegionB>>
    /\ ret.detections[Len(ret.detections)].roi = Some(Twice(RegionB))

-----------------------------------------------------------------------------
\* The stitch stage's overlap threshold (pipeline/stitch.py).  The raw
\* threshold is counted in hundredths, the effective threshold in
\* ten-thousandths, so 0.5 + raw * 0.52 is 5000 + raw * 52.

\* how far outside [0, 1] the raw thresholds go, in hundredths
RawOver == 20

\* float(max(0.0, min(1.0, raw_threshold)))
ClampRaw(raw_threshold) == Max2(0, Min2(100, raw_threshold))

\* the remap without the band
EffectiveOverlapThresholdNoBand(raw_threshold, layout_mode) ==
    LET raw == ClampRaw(raw_threshold)
    IN IF layout_mode = LAYOUT_BOTTOM_BAR THEN 5000 + raw * 52
       ELSE IF layout_mode = LAYOUT_FULL_SCROLL THEN 5500 + raw * 58
       ELSE IF layout_mode = LAYOUT_PAGE_TURN THEN 6800 + raw * 28
       ELSE 5400 + raw * 56

\* _effective_overlap_threshold
EffectiveOverlapThreshold(raw_threshold, layout_mode) ==
    LET raw == ClampRaw(raw_threshold)
    IN IF layout_mode = LAYOUT_BOTTOM_BAR
       THEN Max2(5600, Min2(9000, 5000 + raw * 52))
       ELSE IF layout_mode = LAYOUT_FULL_SCROLL
       THEN Max2(6200, Min2(9400, 5500 + raw * 58))
       ELSE IF layout_mode = LAYOUT_PAGE_TURN
       THEN Max2(7400, Min2(9700, 6800 + raw * 28))
       ELSE Max2(6000, Min2(9200, 5400 + raw * 56))

RawThresholds == (0 - RawOver)..(100 + RawOver)

ThresholdInputs ==
    [raw_threshold : RawThresholds,
     layout_mode : {LAYOUT_BOTTOM_BAR, LAYOUT_FULL_SCROLL, LAYOUT_PAGE_TURN}]

ThresholdInit == CallInit("_effective_overlap_threshold", ThresholdInputs)

\* effective_threshold = _effective_overlap_threshold(raw, layout_mode=...)
EffectiveThreshold ==
    CallReturn("_effective_overlap_threshold",
               EffectiveOverlapThreshold(arg.raw_threshold, arg.layout_mode))

ThresholdNext == EffectiveThreshold

ThresholdSpec == ThresholdInit /\ [][ThresholdNext]_vars

\* the band the specification advertises for a layout, in ten-thousandths
AdvertisedBand(layout_mode) ==
    IF layout_mode = "bottom_bar" THEN <<5600, 9000>>
    ELSE IF layout_mode = "full_scroll" THEN <<6200, 9400>>
    ELSE <<7400, 9700>>

ThresholdReturned == fpc = "returned" /\ arg \in ThresholdInputs /\ ret \in Int

\* C21: for every layout the effective threshold lies in the layout's band,
\* no smaller raw threshold gives a larger effective threshold, and a raw
\* threshold outside [0, 1] gives what the nearest end of [0, 1] gives
C21_ThresholdMonotoneInBand ==
    ThresholdReturned =>
        LET band == AdvertisedBand(arg.layout_mode)
            of(raw) == EffectiveOverlapThreshold(raw, arg.layout_mode)
        IN /\ band[1] <= ret /\ ret <= band[2]
           /\ \A lower \in RawThresholds : lower <= arg.raw_threshold => of(lower) <= ret
           /\ arg.raw_threshold < 0 => ret = of(0)
           /\ arg.raw_threshold > 100 => ret = of(100)

\* full_scroll with raw 0.50 gives 0.84, strictly inside the band and
\* strictly above what raw 0.49 gives
C21_Witness ==
    /\ ThresholdReturned
    /\ arg = [raw_threshold |-> 50, layout_mode |-> LAYOUT_FULL_SCROLL]
    /\ ret = 8400
    /\ EffectiveOverlapThreshold(49, LAYOUT_FULL_SCROLL) < ret

-----------------------------------------------------------------------------
\* Temporal dedup (pipeline/stitch.py).  A frame file is a record
\* [img, readable]: two files with the same img hold the same pixels.  What
\* the pixel comparisons measure between two different images is an input
\* of the run, arg.diff; between two equal images it is zero.  Ratios are
\* counted in thousandths, shifts and confidences in hundredths.

MaxDedupFrames == 3

DedupLevels == {"aggressive", "normal", "sensitive"}

\* _threshold_by_level
ThresholdByLevel(level, aggressive, normal, sensitive) ==
    IF level = "aggressive" THEN aggressive
    ELSE IF level = "sensitive" THEN sensitive
    ELSE normal

\* _min_scroll_shift_by_level
MinScrollShiftByLevel(level) ==
    IF level = "aggressive" THEN 540
    ELSE IF level = "sensitive" THEN 180
    ELSE 320

\* the measurements of one pair of images of height h and width w:
\* changed_ratio and _structure_diff_ratio, _looks_like_moving_playhead,
\* the Hamming distance of the two difference hashes
PairDiff(a, prev, cur) ==
    IF prev = cur
    THEN [changed |-> 0, structure |-> 0, playhead |-> FALSE, hash |-> 0,
          shift |-> 0, conf |-> 100]
    ELSE [changed |-> a.diff.changed, structure |-> a.diff.structure,
          playhead |-> a.diff.playhead, hash |-> a.diff.hash,
          shift |-> IF prev < cur THEN a.diff.shift ELSE 0 - a.diff.shift,
          conf |-> a.diff.conf]

\* _is_near_duplicate with the size test left out
IsNearDuplicateAnySize(a, prev, cur) ==
    LET d == PairDiff(a, prev, cur)
        level == a.dedupe_level
    IN IF a.layout_mode = LAYOUT_BOTTOM_BAR
       THEN \/ d.changed < ThresholdByLevel(level, 45, 28, 16)
            \/ d.structure < ThresholdByLevel(level, 85, 62, 42)
            \/ d.changed < ThresholdByLevel(level, 220, 140, 90) /\ d.playhead
       ELSE IF a.layout_mode = LAYOUT_PAGE_TURN
       THEN \/ d.changed < ThresholdByLevel(level, 12, 8, 5)
            \/ d.structure < ThresholdByLevel(level, 32, 24, 17)
       ELSE \/ d.changed < ThresholdByLevel(level, 26, 18, 12)
            \/ d.structure < ThresholdByLevel(level, 52, 38, 26)

\* _is_near_duplicate
IsNearDuplicate(a, prev, cur) ==
    LET h == Min2(a.h, 900)
        w == Min2(a.w, 1600)
    IN IF h <= 16 \/ w <= 16 THEN FALSE
       ELSE IsNearDuplicateAnySize(a, prev, cur)

\* _frame_dhash: None for an image under 8 rows or 9 columns, else the
\* image stands for its own hash
FrameDhash(a, img) == IF a.h < 8 \/ a.w < 9 THEN None ELSE Some(img)

\* _looks_like_recent_hash_duplicate
LooksLikeRecentHashDuplicate(a, current_hash, recent_hashes) ==
    LET level == a.dedupe_level
        threshold == IF a.layout_mode = LAYOUT_PAGE_TURN
                     THEN ThresholdByLevel(level, 3, 2, 1)
                     ELSE IF a.layout_mode = LAYOUT_BOTTOM_BAR
                     THEN ThresholdByLevel(level, 8, 6, 4)
                     ELSE ThresholdByLevel(level, 7, 5, 3)
    IN /\ recent_hashes # <<>>
       /\ \E i \in 1..Len(recent_hashes) :
             PairDiff(a, recent_hashes[i], current_hash).hash <= threshold

\* _estimate_vertical_shift: (0, 0) for an image under 40 rows or columns
EstimateVerticalShift(a, prev, cur) ==
    IF Min2(a.h, 1200) < 40 \/ Min2(a.w, 1400) < 40
    THEN [shift |-> 0, conf |-> 0]
    ELSE [shift |-> PairDiff(a, prev, cur).shift, conf |-> PairDiff(a, prev, cur).conf]

Abs(n) == IF n < 0 THEN 0 - n ELSE n

\* deque(maxlen=8).append
RecentAppend(recent, hash) ==
    IF hash = None THEN recent
    ELSE IF Len(recent) < 8 THEN Append(recent, hash[1])
    ELSE Append(Tail(recent), hash[1])

\* one pass of the loop of _filter_redundant_frames over frame_paths[i];
\* st = [kept, prev, recent, direction], kept holding indexes of frame_paths
DedupStep(a, st, i) ==
    LET f == a.frame_paths[i]
        cur == f.img
        current_hash == FrameDhash(a, cur)
        est == EstimateVerticalShift(a, st.prev, cur)
        min_scroll_shift == MinScrollShiftByLevel(a.dedupe_level)
        turns == est.conf >= 40 /\ Abs(est.shift) >= 100
        direction == IF est.shift > 0 THEN 1 ELSE 0 - 1
        keep(dir) == [kept |-> Append(st.kept, i), prev |-> cur,
                      recent |-> RecentAppend(st.recent, current_hash),
                      direction |-> dir]
    IN IF ~f.readable THEN st
       ELSE IF IsNearDuplicate(a, st.prev, cur) THEN st
       ELSE IF /\ a.layout_mode \in {LAYOUT_BOTTOM_BAR, LAYOUT_PAGE_TURN}
               /\ current_hash # None
               /\ LooksLikeRecentHashDuplicate(a, cur, st.recent)
       THEN st
       ELSE IF a.layout_mode # LAYOUT_FULL_SCROLL THEN keep(st.direction)
       ELSE IF est.conf >= 34 /\ Abs(est.shift) < min_scroll_shift THEN st
       ELSE IF /\ turns
               /\ st.direction # 0
               /\ direction # st.direction
               /\ Abs(est.shift) * 10 < min_scroll_shift * 18
       THEN st
       ELSE keep(IF turns THEN direction ELSE st.direction)

RECURSIVE DedupLoop(_, _, _)
DedupLoop(a, st, i) ==
    IF i > Len(a.frame_paths) THEN st.kept
    ELSE DedupLoop(a, DedupStep(a, st, i), i + 1)

\* _filter_redundant_frames: the indexes of the frames it returns
FilterRedundantFrames(a) ==
    LET n == Len(a.frame_paths)
        first == a.frame_paths[1]
    IN IF n <= 1 THEN [i \in 1..n |-> i]
       ELSE IF ~first.readable THEN [i \in 1..n |-> i]
       ELSE DedupLoop(a, [kept |-> <<1>>, prev |-> first.img,
                          recent |-> RecentAppend(<<>>, FrameDhash(a, first.img)),
                          direction |-> 0], 2)

FrameFiles == [img : {1, 2}, readable : BOOLEAN]

RECURSIVE SeqsUpTo(_, _)
SeqsUpTo(S, n) ==
    IF n = 0 THEN {<<>>}
    ELSE LET shorter == SeqsUpTo(S, n - 1)
         IN shorter \cup {Append(q, x) : q \in {r \in shorter : Len(r) = n - 1}, x \in S}

\* what the comparisons measure between the two different images
DiffChoices ==
    {[changed |-> 400, structure |-> 300, playhead |-> FALSE, hash |-> 30,
      shift |-> 6000, conf |-> 90],
     [changed |-> 20, structure |-> 300, playhead |-> FALSE, hash |-> 30,
      shift |-> 6000, conf |-> 90],
     [changed |-> 100, structure |-> 300, playhead |-> TRUE, hash |-> 30,
      shift |-> 6000, conf |-> 90],
     [changed |-> 400, structure |-> 300, playhead |-> FALSE, hash |-> 5,
      shift |-> 6000, conf |-> 90],
     [changed |-> 400, structure |-> 300, playhead |-> FALSE, hash |-> 30,
      shift |-> 250, conf |-> 90]}

\* frames of 6x6, 12x12, 30x30 and 60x60 pixels
FrameSides == {6, 12, 30, 60}

DedupInputs ==
    {[frame_paths |-> fr, layout_mode |-> m, dedupe_level |-> l, h |-> s, w |-> s,
      diff |-> d] :
        fr \in SeqsUpTo(FrameFiles, MaxDedupFrames),
        m \in {LAYOUT_BOTTOM_BAR, LAYOUT_FULL_SCROLL, LAYOUT_PAGE_TURN},
        l \in DedupLevels, s \in FrameSides, d \in DiffChoices}

DedupInit == CallInit("_filter_redundant_frames", DedupInputs)

\* filtered_frames = _filter_redundant_frames(...)
FilterFrames ==
    CallReturn("_filter_redundant_frames", [kept |-> FilterRedundantFrames(arg)])

DedupNext == FilterFrames

DedupSpec == DedupInit /\ [][DedupNext]_vars

DedupReturned == fpc = "returned" /\ arg \in DedupInputs

\* C22: the first frame is kept, the kept frames are the input's in the
\* input's order, and no kept frame holds the same image as the kept frame
\* before it, whatever the layout, the level and the frame size
C22_IdenticalFramesDropped ==
    DedupReturned =>
        LET kept == ret.kept
            fr == arg.frame_paths
        IN /\ fr # <<>> => kept # <<>> /\ kept[1] = 1
           /\ \A i \in 1..Len(kept) : kept[i] \in 1..Len(fr)
           /\ \A i \in 1..(Len(kept) - 1) :
                 /\ kept[i] < kept[i + 1]
                 /\ (fr[kept[i]].readable /\ fr[kept[i + 1]].readable)
                       => fr[kept[i]].img # fr[kept[i + 1]].img

-----------------------------------------------------------------------------
\* stitch_pages (pipeline/stitch.py).  An image is a record [parts, rows]:
\* the images of the frames it was made of, top to bottom, and its height.
\* What the strip comparison of _overlap_score measures for the frame at
\* position i of the run is an input, arg.scores[i]: the best score in
\* thousandths, the estimated shift and its confidence in hundredths, and
\* which end of the candidate overlaps held the best strip.  The similarity
\* of two different images is arg.diff.sim, in thousandths.

FrameImage(a, f) == [parts |-> <<f.img>>, rows |-> a.h]

\* int(v) of a non-negative quotient
Floor(num, den) == num \div den

\* the overlaps the loop of _overlap_score tries: range(lo, hi + 1, step)
OverlapCandidates(lo, hi) ==
    LET step == IF hi - lo <= 160 THEN 2 ELSE 3
    IN [k \in 1..(((hi - lo) \div step) + 1) |-> lo + (k - 1) * step]

\* _overlap_score for a buffer and a next image of widths a.w, measured as m
OverlapScore(a, buffer, m) ==
    LET h == Min2(buffer.rows, a.h)
        min_overlap == Max2(24, Floor(h * 5, 100))
        max_overlap == Min2(Floor(h * 88, 100), h - 2)
        est == IF Min2(h, 1200) < 40 \/ Min2(a.w, 1400) < 40
               THEN [shift |-> 0, conf |-> 0]
               ELSE [shift |-> m.shift, conf |-> m.conf]
        expected_overlap ==
            Floor(Max2(min_overlap * 100,
                       Min2(max_overlap * 100, h * 100 - Max2(100, Abs(est.shift)))), 100)
        search_radius == Max2(20, Floor(h * 10, 100))
        lo0 == Max2(min_overlap, expected_overlap - search_radius)
        hi0 == Min2(max_overlap, expected_overlap + search_radius)
        wide == est.conf < 25 \/ hi0 <= lo0
        lo == IF wide THEN min_overlap ELSE lo0
        hi == IF wide THEN max_overlap ELSE hi0
        tried == OverlapCandidates(lo, hi)
        best_overlap == IF m.pick = "first" THEN tried[1] ELSE tried[Len(tried)]
        score == IF est.conf < 15 /\ m.score < 780 THEN (m.score * 9) \div 10 ELSE m.score
    IN IF h <= 2 \/ a.w <= 2 THEN [score |-> 0, overlap_px |-> 0]
       ELSE IF max_overlap <= min_overlap THEN [score |-> 0, overlap_px |-> min_overlap]
       ELSE [score |-> score, overlap_px |-> best_overlap]

\* np.vstack((top, bottom)) whatever the overlap
StitchPairStacked(top, bottom, overlap_px) ==
    [parts |-> top.parts \o bottom.parts, rows |-> top.rows + bottom.rows]

\* _stitch_pair
StitchPair(top, bottom, overlap_px) ==
    LET overlap == Max2(0, Min2(overlap_px, Min2(top.rows, bottom.rows) - 1))
        keep_top == IF overlap < top.rows THEN top.rows - overlap ELSE 0
        seam == Max2(10, Min2(overlap, 42))
        rest_bottom == IF seam < bottom.rows THEN bottom.rows - seam ELSE 0
    IN [parts |-> top.parts \o bottom.parts,
        rows |-> IF overlap <= 0 THEN top.rows + bottom.rows
                 ELSE keep_top + seam + rest_bottom]

\* the loop of stitch_pages over filtered_frames[i..]; st = [pages, buffer, log]
RECURSIVE StitchLoop(_, _, _, _)
StitchLoop(a, frames, st, i) ==
    IF i > Len(frames)
    THEN [pages |-> Append(st.pages, st.buffer), log |-> st.log]
    ELSE LET f == a.frame_paths[frames[i]]
             next_image == FrameImage(a, f)
             m == OverlapScore(a, st.buffer, a.scores[i - 1])
             threshold == EffectiveOverlapThreshold(a.overlap_threshold, a.layout_mode)
         IN IF ~f.readable THEN StitchLoop(a, frames, st, i + 1)
            ELSE IF m.score * 10 >= threshold
            THEN StitchLoop(a, frames,
                            [pages |-> st.pages,
                             buffer |-> StitchPair(st.buffer, next_image, m.overlap_px),
                             log |-> Append(st.log, [at |-> i, top |-> st.buffer.rows,
                                                     overlap |-> m.overlap_px])],
                            i + 1)
            ELSE StitchLoop(a, frames,
                            [pages |-> Append(st.pages, st.buffer),
                             buffer |-> next_image, log |-> st.log], i + 1)

\* _frame_similarity, in thousandths
FrameSimilarity(a, x, y) ==
    IF a.h <= 2 \/ a.w <= 2 THEN 0
    ELSE IF x = y THEN 1000
    ELSE a.diff.sim

\* max(0.88, min(0.98, 1.0 - overlap_threshold * 0.25)), in ten-thousandths
SimilarityThreshold(raw) == Max2(8800, Min2(9800, 10000 - raw * 25))

\* the loop of _collect_page_turn_pages over frame_paths[i..];
\* st = [pages, current, log], log holding the positions of the transitions
RECURSIVE PageTurnLoop(_, _, _, _)
PageTurnLoop(a, frames, st, i) ==
    IF i > Len(frames)
    THEN [pages |-> Append(st.pages, FrameImage(a, [img |-> st.current])), log |-> st.log]
    ELSE LET f == a.frame_paths[frames[i]]
         IN IF ~f.readable THEN PageTurnLoop(a, frames, st, i + 1)
            ELSE IF FrameSimilarity(a, st.current, f.img) * 10
                        >= SimilarityThreshold(a.overlap_threshold)
            THEN PageTurnLoop(a, frames, st, i + 1)
            ELSE PageTurnLoop(a, frames,
                     [pages |-> Append(st.pages, FrameImage(a, [img |-> st.current])),
                      current |-> f.img,
                      log |-> Append(st.log, [at |-> i])], i + 1)

\* stitch_pages: [kept, mode, pages, log, error]; mode tells which branch
\* produced the pages
StitchPages(a) ==
    LET kept == FilterRedundantFrames(a)
        first == a.frame_paths[kept[1]]
        failed == [kept |-> kept, mode |-> "raised", pages |-> <<>>, log |-> <<>>,
                   error |-> "failed to read first rectified frame"]
        out(mode, r) == [kept |-> kept, mode |-> mode, pages |-> r.pages,
                         log |-> r.log, error |-> ""]
    IN IF a.frame_paths = <<>> \/ kept = <<>>
       THEN out("empty", [pages |-> <<>>, log |-> <<>>])
       ELSE IF a.layout_mode = LAYOUT_PAGE_TURN
       THEN IF ~first.readable THEN failed
            ELSE out("page_turn",
                     PageTurnLoop(a, kept, [pages |-> <<>>, current |-> first.img,
                                            log |-> <<>>], 2))
       ELSE IF ~a.enable
       THEN out("frames", [pages |-> [i \in 1..Len(kept) |->
                                         FrameImage(a, a.frame_paths[kept[i]])],
                           log |-> <<>>])
       ELSE IF ~first.readable THEN failed
       ELSE out("stitched",
                StitchLoop(a, kept, [pages |-> <<>>, buffer |-> FrameImage(a, first),
                                     log |-> <<>>], 2))

ScoreChoices ==
    {[score |-> 950, shift |-> 250, conf |-> 90, pick |-> "first"],
     [score |-> 950, shift |-> 0, conf |-> 10, pick |-> "last"],
     [score |-> 700, shift |-> 0, conf |-> 10, pick |-> "first"]}

StitchDiffChoices ==
    {[changed |-> 400, structure |-> 300, playhead |-> FALSE, hash |-> 30,
      shift |-> 6000, conf |-> 90, sim |-> 960],
     [changed |-> 400, structure |-> 300, playhead |-> FALSE, hash |-> 30,
      shift |-> 6000, conf |-> 90, sim |-> 600]}

StitchInputs ==
    {[frame_paths |-> fr, layout_mode |-> m, dedupe_level |-> "normal", h |-> s, w |-> s,
      diff |-> d, enable |-> e, overlap_threshold |-> raw, scores |-> sc] :
        fr \in SeqsUpTo(FrameFiles, MaxDedupFrames),
        m \in {LAYOUT_BOTTOM_BAR, LAYOUT_FULL_SCROLL, LAYOUT_PAGE_TURN},
        s \in {12, 30, 60}, d \in StitchDiffChoices, e \in BOOLEAN, raw \in {20, 100},
        sc \in [1..(MaxDedupFrames - 1) -> ScoreChoices]}

StitchInit == CallInit("stitch_pages", StitchInputs)

\* stitch_pages(frame_paths=..., options=..., ...)
Stitch == CallReturn("stitch_pages", StitchPages(arg))

StitchNext == Stitch

StitchSpec == StitchInit /\ [][StitchNext]_vars

StitchReturned == fpc = "returned" /\ arg \in StitchInputs

\* the readable frames among the kept ones, as positions in ret.kept
ReadableKept == {i \in 1..Len(ret.kept) : arg.frame_paths[ret.kept[i]].readable}

\* C23: in scroll stitching one kept frame gives one page equal to it, and
\* two kept frames whose overlap score reaches the effective threshold give
\* one page of height h(first) + h(second) - overlap
C23_StitchHeights ==
    (StitchReturned /\ ret.mode = "stitched" /\ ReadableKept = 1..Len(ret.kept)) =>
        /\ Len(ret.kept) = 1 =>
              ret.pages = <<FrameImage(arg, arg.frame_paths[ret.kept[1]])>>
        /\ (Len(ret.kept) = 2 /\ ret.log # <<>>) =>
              /\ Len(ret.pages) = 1
              /\ Len(ret.log) = 1
              /\ ret.log[1].overlap = OverlapScore(arg, FrameImage(arg, arg.frame_paths[1]),
                                                   arg.scores[1]).overlap_px
              /\ ret.pages[1].rows = arg.h + arg.h - ret.log[1].overlap
              /\ ret.pages[1].parts = <<arg.frame_paths[ret.kept[1]].img,
                                        arg.frame_paths[ret.kept[2]].img>>
        /\ (Len(ret.kept) = 2 /\ ret.log = <<>>) => Len(ret.pages) = 2

\* two kept frames of 60 rows were merged over the 32 rows the estimate chose
C23_Witness ==
    /\ StitchReturned
    /\ ret.mode = "stitched"
    /\ Len(ret.kept) = 2
    /\ ReadableKept = {1, 2}
    /\ arg.h = 60
    /\ ret.log = <<[at |-> 2, top |-> 60, overlap |-> 32]>>
    /\ ret.pages = <<[parts |-> <<1, 2>>, rows |-> 88]>>

\* the last readable kept frame before position i of ret.kept
Preceding(i) ==
    LET before == {j \in ReadableKept : j < i}
        j == CHOOSE k \in before : \A o \in before : o <= k
    IN arg.frame_paths[ret.kept[j]]

\* C24: in page_turn mode nothing is stitched; each transition writes the
\* kept frame just before the frame that triggered it, the last page is the
\* final kept frame, and there is one page more than there are transitions
C24_PageTurnPreviousFrame ==
    (StitchReturned /\ ret.mode = "page_turn") =>
        /\ Len(ret.pages) = Len(ret.log) + 1
        /\ \A k \in 1..Len(ret.pages) : Len(ret.pages[k].parts) = 1
        /\ \A k \in 1..Len(ret.log) :
              ret.pages[k] = FrameImage(arg, Preceding(ret.log[k].at))
        /\ ret.pages[Len(ret.pages)] = FrameImage(arg, Preceding(Len(ret.kept) + 1))

-----------------------------------------------------------------------------
\* Whitespace slicing of a tall sheet (pipeline/sheet_finalize.py).  The image
\* is its rows 0..h-1; row_density is given by a base density and a few
\* valleys <<first row, end row, density>>, densities counted in millionths.
\* A page is the range <<start, cut>> of image[start:cut].

MaxValleys == 2

\* row_density[r]
Density(a, r) ==
    LET over == {v \in a.valleys : v[1] <= r /\ r < v[2]}
    IN IF over = {} THEN a.base ELSE (CHOOSE v \in over : TRUE)[3]

\* the value at position idx of sorted(row_density)
SortedDensity(a, idx) ==
    LET values == {a.base} \cup {v[3] : v \in a.valleys}
        countLE(x) == Cardinality({r \in 0..(a.h - 1) : Density(a, r) <= x})
    IN CHOOSE x \in values :
          /\ countLE(x) > idx
          /\ \A y \in values : y < x => countLE(y) <= idx

\* np.percentile(row_density, q), interpolating linearly
Percentile(a, q) ==
    LET p == q * (a.h - 1)
        lo == SortedDensity(a, p \div 100)
        hi == SortedDensity(a, Min2(a.h - 1, (p \div 100) + 1))
    IN lo + ((hi - lo) * (p % 100)) \div 100

\* float(np.clip(np.percentile(row_density, 28) * 1.35, 0.0025, 0.018))
BlankThreshold(a) == Max2(2500, Min2(18000, (Percentile(a, 28) * 135) \div 100))

\* max(180, int(target_h * 0.74)), 0.58 in balanced mode
SliceMinHeight(a) ==
    Max2(180, (a.target_h * (IF a.mode = "performance" THEN 74 ELSE 58)) \div 100)

\* the first row of lo..hi - 1 of least density: lo + int(np.argmin(...))
ArgMinRow(a, lo, hi) ==
    CHOOSE r \in lo..(hi - 1) :
        \A q \in lo..(hi - 1) :
            \/ Density(a, q) > Density(a, r)
            \/ Density(a, q) = Density(a, r) /\ q >= r

\* the cut one pass of the loop of _slice_by_whitespace chooses for the page
\* that starts at row start, start + target_h < h
SliceCut(a, blank_threshold, start) ==
    LET h == a.h
        target_h == a.target_h
        perf == a.mode = "performance"
        min_h == SliceMinHeight(a)
        hard_end == Min2(h, start + target_h)
        back_window == (target_h * (IF perf THEN 14 ELSE 28)) \div 100
        forward_window == (target_h * (IF perf THEN 28 ELSE 20)) \div 100
        back_blank_multiplier == IF perf THEN 82 ELSE 100
        back_density_ratio == IF perf THEN 72 ELSE 82
        search_lo == Max2(start + min_h, hard_end - back_window)
        search_mid == hard_end
        search_hi == Min2(h - 1, hard_end + forward_window)
        at(r) == Density(a, Min2(h - 1, Max2(0, r)))
        back_candidates == {r \in search_lo..(search_mid - 1) :
                               Density(a, r) * 100 <= blank_threshold * 96}
        back_cut == IF perf /\ back_candidates # {}
                    THEN CHOOSE r \in back_candidates : \A q \in back_candidates : q <= r
                    ELSE ArgMinRow(a, search_lo, search_mid)
        cut1 == IF /\ search_mid > search_lo
                   /\ \/ at(back_cut) * 100 <= blank_threshold * back_blank_multiplier
                      \/ at(back_cut) * 100 < at(hard_end - 1) * back_density_ratio
                THEN back_cut ELSE hard_end
        fwd_cut == ArgMinRow(a, search_mid, search_hi + 1)
        cut2 == IF /\ cut1 - start < min_h \/ at(cut1 - 1) * 100 > blank_threshold * 125
                   /\ search_hi > search_mid
                   /\ at(fwd_cut) * 100 <= at(cut1 - 1) * 94
                THEN fwd_cut ELSE cut1
        cut3 == Min2(Max2(cut2, start + min_h), h)
        cut4 == IF cut3 <= start THEN Min2(h, start + target_h) ELSE cut3
        blank_indices == {r \in search_lo..search_hi : Density(a, r) <= blank_threshold}
        min_pick == Max2(start + min_h, hard_end - (target_h * 9) \div 100)
        tightened == {r \in blank_indices : r >= min_pick}
        absolute == IF perf /\ tightened # {} THEN tightened ELSE blank_indices
        pick == CHOOSE r \in absolute :
                    \A q \in absolute :
                        \/ Abs(q - hard_end) > Abs(r - hard_end)
                        \/ Abs(q - hard_end) = Abs(r - hard_end) /\ q >= r
    IN IF /\ at(cut4 - 1) * 100 > blank_threshold * 112
          /\ blank_indices # {}
          /\ pick - start >= Max2(96, (min_h * 42) \div 100)
       THEN pick ELSE cut4

\* the while loop of _slice_by_whitespace from row start on
RECURSIVE SliceLoop(_, _, _, _)
SliceLoop(a, blank_threshold, pages, start) ==
    IF start >= a.h THEN pages
    ELSE IF Min2(a.h, start + a.target_h) >= a.h THEN Append(pages, <<start, a.h>>)
    ELSE LET cut == SliceCut(a, blank_threshold, start)
         IN SliceLoop(a, blank_threshold, Append(pages, <<start, cut>>), cut)

\* the thresholds of _merge_short_trailing_page
MergeLimits(a) ==
    IF a.mode = "performance"
    THEN [min_tail |-> Max2(84, (a.target_h * 42) \div 100),
          max_prev |-> (a.target_h * 118) \div 100,
          max_prev_soft |-> (a.target_h * 124) \div 100]
    ELSE [min_tail |-> Max2(84, (a.target_h * 22) \div 100),
          max_prev |-> (a.target_h * 108) \div 100,
          max_prev_soft |-> (a.target_h * 116) \div 100]

Rows(page) == page[2] - page[1]

\* the page before the tail alone, the tail dropped
StackedPrevOnly(prev, tail) == prev

\* np.vstack((prev, tail)): the rows of prev followed by the rows of tail
Stacked(prev, tail) == <<prev[1], tail[2]>>

\* _merge_short_trailing_page
RECURSIVE MergeShortTrailingPage(_, _)
MergeShortTrailingPage(a, pages) ==
    LET n == Len(pages)
        lim == MergeLimits(a)
        tail_h == Rows(pages[n])
        prev_h == Rows(pages[n - 1])
        can_hard_merge == prev_h + tail_h <= lim.max_prev
        can_soft_merge == /\ tail_h <= (lim.min_tail * 62) \div 100
                          /\ prev_h + tail_h <= lim.max_prev_soft
    IN IF n < 2 THEN pages
       ELSE IF tail_h >= lim.min_tail THEN pages
       ELSE IF ~can_hard_merge /\ ~can_soft_merge THEN pages
       ELSE MergeShortTrailingPage(a,
                Append(SubSeq(pages, 1, n - 2), Stacked(pages[n - 1], pages[n])))

\* valleys of 24 rows around a row, as deep as white paper or as a thin line
ValleyChoices(target_h) ==
    {<<(target_h * c) \div 100 - 12, (target_h * c) \div 100 + 12, d>> :
        c \in {80, 90, 100, 110, 190, 205}, d \in {900, 16000}}

\* the sets of valleys of an image sliced at target_h: none overlaps another
ValleySets(target_h) ==
    {x \in SUBSET ValleyChoices(target_h) :
        /\ Cardinality(x) <= MaxValleys
        /\ \A v, u \in x : v # u => (v[2] <= u[1] \/ u[2] <= v[1])}

SliceInputsAt(t) ==
    {[h |-> (t * k) \div 5, target_h |-> t, mode |-> m, base |-> b, valleys |-> vs] :
        k \in {6, 10, 11, 12, 16}, m \in {"performance", "balanced"},
        b \in {50000, 20000, 800}, vs \in ValleySets(t)}

SliceInputs == SliceInputsAt(250) \cup SliceInputsAt(900)

SliceInit == CallInit("_slice_by_whitespace", SliceInputs)

\* the body of _slice_by_whitespace up to its return statement
SliceRows ==
    /\ fpc = "_slice_by_whitespace"
    /\ ret' = [sliced |-> SliceLoop(arg, BlankThreshold(arg), <<>>, 0)]
    /\ fpc' = "_merge_short_trailing_page"
    /\ UNCHANGED <<arg, outsideCall>>

\* return _merge_short_trailing_page(pages, target_h=..., page_fill_mode=mode)
MergeTail ==
    /\ fpc = "_merge_short_trailing_page"
    /\ ret' = [sliced |-> ret.sliced, pages |-> MergeShortTrailingPage(arg, ret.sliced)]
    /\ fpc' = "returned"
    /\ UNCHANGED <<arg, outsideCall>>

SliceNext == SliceRows \/ MergeTail

SliceSpec == SliceInit /\ [][SliceNext]_vars

\* the ranges follow one another from row 0 to row h, none empty
Partition(pages, h) ==
    /\ pages # <<>>
    /\ pages[1][1] = 0
    /\ pages[Len(pages)][2] = h
    /\ \A i \in 1..Len(pages) : pages[i][1] < pages[i][2]
    /\ \A i \in 1..(Len(pages) - 1) : pages[i][2] = pages[i + 1][1]

RECURSIVE SumRows(_)
SumRows(pages) == IF pages = <<>> THEN 0 ELSE Rows(Head(pages)) + SumRows(Tail(pages))

SliceReturned == fpc = "returned" /\ arg \in SliceInputs

\* C25: the pages of _slice_by_whitespace are consecutive, disjoint row
\* ranges from row 0 to the last row whose heights sum to the image height,
\* before the trailing-page merge every page but the last has at least the
\* mode's minimum height, and the partition still holds after the merge
C25_SlicesPartitionRows ==
    SliceReturned =>
        /\ Partition(ret.sliced, arg.h)
        /\ SumRows(ret.sliced) = arg.h
        /\ \A i \in 1..(Len(ret.sliced) - 1) :
              /\ Rows(ret.sliced[i]) >= SliceMinHeight(arg)
              /\ Rows(ret.sliced[i]) * 100 >=
                    arg.target_h * (IF arg.mode = "performance" THEN 74 ELSE 58) - 99
        /\ Partition(ret.pages, arg.h)
        /\ SumRows(ret.pages) = arg.h

\* three pages were cut, the first at a valley before the hard end, and the
\* short third page was joined to the second
C25_Witness ==
    /\ SliceReturned
    /\ Len(ret.sliced) = 3
    /\ ret.sliced[1][2] < arg.target_h
    /\ Len(ret.pages) = 2
    /\ ret.pages[2] = <<ret.sliced[2][1], arg.h>>

\* C27: the last page is joined to the page before it only when it is
\* shorter than 0.42 target (0.22 balanced) and the two together are at most
\* 1.18 target (1.08 balanced) high, so no joined page is higher than that,
\* and the pages keep their total number of rows
C27_TrailingMergeBound ==
    SliceReturned =>
        LET perf == arg.mode = "performance"
            joined == ret.pages[Len(ret.pages)]
            tail == ret.sliced[Len(ret.sliced)]
        IN /\ SumRows(ret.pages) = SumRows(ret.sliced)
           /\ ret.pages # ret.sliced =>
                 /\ Rows(tail) < MergeLimits(arg).min_tail
                 /\ Rows(joined) * 100 <= arg.target_h * (IF perf THEN 118 ELSE 108)

-----------------------------------------------------------------------------
\* _resolve_overlapping_ranges (pipeline/sheet_finalize.py) over an image of
\* MaxRows rows; row_density is a sequence, row r at position r + 1.

MaxRows == 6

MaxRanges == 3

\* s + int(np.argmin(row_density[s:prev_e]))
ArgMinDensity(row_density, s, prev_e) ==
    CHOOSE r \in s..(prev_e - 1) :
        \A q \in s..(prev_e - 1) :
            \/ row_density[q + 1] > row_density[r + 1]
            \/ row_density[q + 1] = row_density[r + 1] /\ q >= r

\* the candidate row taken as it is
ClipBoundaryNone(candidate, boundary_lo, boundary_hi) == candidate

\* int(np.clip(candidate, boundary_lo, boundary_hi))
ClipBoundary(candidate, boundary_lo, boundary_hi) ==
    Max2(boundary_lo, Min2(boundary_hi, candidate))

\* one pass of the loop of _resolve_overlapping_ranges
ResolveStep(resolved, range, row_density) ==
    LET total_h == Len(row_density)
        s == Max2(0, range[1])
        e == Min2(total_h, range[2])
        n == Len(resolved)
        prev_s == resolved[n][1]
        prev_e == resolved[n][2]
        boundary_lo == Max2(prev_s + 1, s)
        boundary_hi == Min2(prev_e - 1, e - 1)
        boundary == ClipBoundary(ArgMinDensity(row_density, s, prev_e),
                                 boundary_lo, boundary_hi)
        moved == s < prev_e /\ boundary_lo <= boundary_hi
        s2 == IF moved THEN boundary ELSE s
        kept == IF moved THEN [resolved EXCEPT ![n] = <<prev_s, boundary>>] ELSE resolved
    IN IF e <= s THEN resolved
       ELSE IF resolved = <<>> THEN <<<<s, e>>>>
       ELSE IF e <= s2 THEN kept
       ELSE Append(kept, <<s2, e>>)

RECURSIVE ResolveLoop(_, _, _, _)
ResolveLoop(resolved, ranges, row_density, i) ==
    IF i > Len(ranges) THEN resolved
    ELSE ResolveLoop(ResolveStep(resolved, ranges[i], row_density), ranges, row_density,
                     i + 1)

\* _resolve_overlapping_ranges
ResolveOverlappingRanges(ranges, row_density) == ResolveLoop(<<>>, ranges, row_density, 1)

RowRanges == {<<s, e>> : s \in 0..MaxRows, e \in 0..MaxRows} \cap
             {r \in (0..MaxRows) \X (0..MaxRows) : r[1] < r[2]}

ResolveInputs ==
    [ranges : {q \in SeqsUpTo(RowRanges, MaxRanges) :
                  \A i \in 1..(Len(q) - 1) : q[i][1] <= q[i + 1][1]},
     row_density : [1..MaxRows -> {0, 1}]]

ResolveInit == CallInit("_resolve_overlapping_ranges", ResolveInputs)

\* pages = _resolve_overlapping_ranges(pages, row_density=row_density)
ResolveRanges ==
    CallReturn("_resolve_overlapping_ranges",
               [resolved |-> ResolveOverlappingRanges(arg.ranges, arg.row_density)])

ResolveNext == ResolveRanges

ResolveSpec == ResolveInit /\ [][ResolveNext]_vars

ResolveReturned == fpc = "returned" /\ arg \in ResolveInputs

\* what the claim says of the ranges returned for arg.ranges
ResolvedAsClaimed ==
    LET in == arg.ranges
        out == ret.resolved
        n == Len(in)
    IN /\ Len(out) = n
       /\ \A i \in 1..Len(out) : out[i][1] < out[i][2]
       /\ \A i \in 1..(Len(out) - 1) : out[i][2] <= out[i + 1][1]
       /\ n > 0 => out[1][1] = in[1][1] /\ out[n][2] = in[n][2]
       /\ \A i \in 1..(Len(out) - 1) :
             IF out[i][2] = in[i][2] THEN out[i + 1][1] = in[i + 1][1]
             ELSE /\ out[i + 1][1] = out[i][2]
                  /\ in[i + 1][1] <= out[i][2]
                  /\ out[i][2] < in[i][2]

\* C26 as stated: for non-empty ranges in order of start row the result has
\* as many ranges, none sharing a row with the next, the first start and the
\* last end kept, and every moved boundary inside the rows the two
\* neighbouring input ranges shared
C26_OverlapResolved == ResolveReturned => ResolvedAsClaimed

\* start rows and end rows both increase strictly along the list
StrictlyAscending(ranges) ==
    \A i \in 1..(Len(ranges) - 1) :
        ranges[i][1] < ranges[i + 1][1] /\ ranges[i][2] < ranges[i + 1][2]

\* C26 amended: the same, for non-empty ranges whose start rows and end rows
\* both increase strictly along the list
C26_OverlapResolvedAscending ==
    (ResolveReturned /\ StrictlyAscending(arg.ranges)) => ResolvedAsClaimed

\* three ranges overlapping in a chain: the first boundary moved to the row
\* of least density, the second to the nearest row left to the third range
C26_Witness ==
    /\ ResolveReturned
    /\ arg.ranges = <<<<0, 3>>, <<1, 5>>, <<2, 6>>>>
    /\ arg.row_density = <<1, 1, 0, 1, 0, 1>>
    /\ ret.resolved = <<<<0, 2>>, <<2, 3>>, <<3, 6>>>>

-----------------------------------------------------------------------------
\* rectify_frames (pipeline/rectify.py).  A detection is [readable, roi]:
\* whether cv2.imread reads its frame, and its region, None or four points.
\* Every frame is FrameW x FrameH.  An output is the frame's own path,
\* [kind |-> "frame", idx], or a written sheet_<idx>.png,
\* [kind |-> "sheet", idx, size, warped].

MaxRectifyFrames == 3

\* int(np.linalg.norm(p - q))
NormInt(p, q) ==
    LET n == (p[1] - q[1]) * (p[1] - q[1]) + (p[2] - q[2]) * (p[2] - q[2])
    IN CHOOSE r \in 0..n : r * r <= n /\ n < (r + 1) * (r + 1)

\* max_w and max_h of _warp_sheet for points (tl, tr, br, bl)
WarpSize(points) ==
    LET tl == points[1]
        tr == points[2]
        br == points[3]
        bl == points[4]
    IN <<Max2(NormInt(br, bl), NormInt(tr, tl)), Max2(NormInt(tr, br), NormInt(tl, bl))>>

\* _warp_sheet: the size of the image it returns and whether it was warped
WarpSheet(points) ==
    LET size == WarpSize(points)
    IN IF size[1] <= 1 \/ size[2] <= 1
       THEN [size |-> <<FrameW, FrameH>>, warped |-> FALSE]
       ELSE [size |-> size, warped |-> TRUE]

\* the region of an item after manual_points were forced on items without one
ForcedRoi(a, item) ==
    IF a.manual_points # None /\ item.roi = None THEN a.manual_points ELSE item.roi

\* the loop of rectify_frames over detections[i..], i counted from 1
RECURSIVE RectifyLoop(_, _, _)
RectifyLoop(a, out_paths, i) ==
    IF i > Len(a.detections) THEN out_paths
    ELSE LET item == a.detections[i]
             roi == ForcedRoi(a, item)
             warped == WarpSheet(RectifyOrderPoints(roi[1]))
         IN IF ~item.readable THEN RectifyLoop(a, out_paths, i + 1)
            ELSE IF roi = None
            THEN RectifyLoop(a, Append(out_paths, [kind |-> "frame", idx |-> i - 1]), i + 1)
            ELSE RectifyLoop(a, Append(out_paths,
                                       [kind |-> "sheet", idx |-> i - 1,
                                        size |-> warped.size, warped |-> warped.warped]),
                             i + 1)

\* rectify_frames
RectifyFrames(a) ==
    LET out_paths == RectifyLoop(a, <<>>, 1)
    IN IF out_paths = <<>>
       THEN [out_paths |-> <<>>, error |-> "rectification produced no output frames"]
       ELSE [out_paths |-> out_paths, error |-> ""]

\* a 4 x 3 rectangle, a trapezoid 2 wide at the top and 4 at the bottom, a
\* strip 1 pixel high and a square 1 pixel wide, corners in no special order
RoiChoices ==
    {<<<<4, 3>>, <<0, 0>>, <<4, 0>>, <<0, 3>>>>,
     <<<<1, 0>>, <<3, 0>>, <<4, 3>>, <<0, 3>>>>,
     <<<<0, 0>>, <<4, 0>>, <<4, 1>>, <<0, 1>>>>,
     <<<<0, 0>>, <<1, 0>>, <<1, 1>>, <<0, 1>>>>}

RectifyInputs ==
    [detections : SeqsUpTo([readable : BOOLEAN,
                            roi : {None} \cup {Some(r) : r \in RoiChoices}],
                           MaxRectifyFrames),
     manual_points : {None} \cup {Some(r) : r \in RoiChoices},
     auto : BOOLEAN]

RectifyInit == CallInit("rectify_frames", RectifyInputs)

\* rectified = rectify_frames(detections=..., options=..., ...)
Rectify == CallReturn("rectify_frames", RectifyFrames(arg))

RectifyNext == Rectify

RectifySpec == RectifyInit /\ [][RectifyNext]_vars

RectifyReturned == fpc = "returned" /\ arg \in RectifyInputs

\* the outputs the claim gives the frame at position i
ClaimedOutputs(i) ==
    LET item == arg.detections[i]
        roi == ForcedRoi(arg, item)
        corners == RectifyOrderPoints(roi[1])
        top_width == NormInt(corners[2], corners[1])
        bottom_width == NormInt(corners[3], corners[4])
        left_height == NormInt(corners[1], corners[4])
        right_height == NormInt(corners[2], corners[3])
        target == <<Max2(top_width, bottom_width), Max2(left_height, right_height)>>
    IN IF ~item.readable THEN <<>>
       ELSE IF roi = None THEN <<[kind |-> "frame", idx |-> i - 1]>>
       ELSE IF target[1] <= 1 \/ target[2] <= 1 THEN <<>>
       ELSE <<[kind |-> "sheet", idx |-> i - 1, size |-> target, warped |-> TRUE]>>

RECURSIVE ClaimedFrom(_)
ClaimedFrom(i) ==
    IF i > Len(arg.detections) THEN <<>> ELSE ClaimedOutputs(i) \o ClaimedFrom(i + 1)

\* C28: a frame whose region gives a target width or height of at most 1 is
\* skipped, a frame without a region is passed through as its own path,
\* every other readable frame gives one warped image of the target size, and
\* an error is raised if nothing is output
C28_RectifySkipsDegenerate ==
    RectifyReturned =>
        /\ ret.out_paths = ClaimedFrom(1)
        /\ ret.error # "" <=> ClaimedFrom(1) = <<>>

-----------------------------------------------------------------------------
\* review_export and the cleanup of the previous export (main.py).

\* C29: a review_export whose kept captures all passed path validation reads
\* them before its own cleanup can delete them, so it never fails for want
\* of pages: it is not answered with 500
C29_ReviewExportReadsBeforeCleanup ==
    [][\A job_id \in JobIds :
          (/\ last' # last
           /\ last'[1] = "review_export"
           /\ last'[2] = job_id
           /\ job_id \in DOMAIN store
           /\ store[job_id].status \notin BlockedStatuses)
              => last'[3] \in {200, 400}]_vars

-----------------------------------------------------------------------------
\* The layout mode of one job (main.py, detect.py, stitch.py): _run_job hands
\* the detector's hint to the stitch options, then each stage resolves its
\* own layout mode.

LayoutHints == {"auto", "bottom_bar", "full_scroll", "page_turn"}

JobLayoutInputs ==
    [detect_hint : LayoutHints, stitch_hint : LayoutHints,
     prefer_bottom : {None, Some(TRUE), Some(FALSE)},
     source_type : {"file", "youtube"}]

JobLayoutInit == CallInit("_run_job", JobLayoutInputs)

\* if stitch_opts.layout_hint == "auto" and detect_opts.layout_hint != "auto":
\*     stitch_opts.layout_hint = detect_opts.layout_hint
HandDownHint ==
    /\ fpc = "_run_job"
    /\ ret' = [stitch_hint |-> IF arg.stitch_hint = "auto" /\ arg.detect_hint # "auto"
                               THEN arg.detect_hint ELSE arg.stitch_hint]
    /\ fpc' = "detect_sheet_regions"
    /\ UNCHANGED <<arg, outsideCall>>

\* layout_mode = resolve_layout_hint(options.layout_hint, source_type=...,
\* prefer_bottom=options.prefer_bottom) of detect_sheet_regions
DetectLayout ==
    /\ fpc = "detect_sheet_regions"
    /\ ret' = [stitch_hint |-> ret.stitch_hint,
               detect_mode |-> ResolveLayoutHint(Some(arg.detect_hint),
                                                 Some(arg.source_type), arg.prefer_bottom)]
    /\ fpc' = "stitch_pages"
    /\ UNCHANGED <<arg, outsideCall>>

\* layout_mode = resolve_layout_hint(options.layout_hint, source_type=...)
\* of stitch_pages
StitchLayout ==
    /\ fpc = "stitch_pages"
    /\ ret' = [stitch_hint |-> ret.stitch_hint,
               detect_mode |-> ret.detect_mode,
               stitch_mode |-> ResolveLayoutHint(Some(ret.stitch_hint),
                                                 Some(arg.source_type), None)]
    /\ fpc' = "returned"
    /\ UNCHANGED <<arg, outsideCall>>

JobLayoutNext == HandDownHint \/ DetectLayout \/ StitchLayout

JobLayoutSpec == JobLayoutInit /\ [][JobLayoutNext]_vars

\* C30: in a job whose stitch.layout_hint is auto the detector and the
\* dedup/stitch stage resolve the same layout mode, whatever
\* detect.layout_hint, detect.prefer_bottom and the source kind are
C30_StagesShareLayout ==
    (fpc = "returned" /\ arg \in JobLayoutInputs /\ arg.stitch_hint = "auto") =>
        ret.detect_mode = ret.stitch_mode

====
